---- MODULE Spec2Model ----
(***************************************************************************)
(* State-machine model of the proactive assistant backend                  *)
(* (src/src/server.js): the key-value store, the four scheduled jobs, the  *)
(* manual trigger, the oracle client, the decision parser, the cool-down   *)
(* gate and the notifier.                                                  *)
(*                                                                         *)
(* Node runs every handler on one event loop: code between two awaits is   *)
(* atomic, and handlers interleave only at awaits on store I/O, the oracle *)
(* fetch and the mail transport.  Each action below is the completion of   *)
(* one such await followed by the synchronous code up to the next await.   *)
(* A store read takes its value, and a store write takes effect, at the    *)
(* step that completes the await.                                          *)
(***************************************************************************)
EXTENDS Integers, Sequences, FiniteSets, Bags, TLC

\* ---------------------------------------------------------------- bounds
\* Firings (timer callbacks and trigger requests) started in one behaviour.
MaxFirings == 2
\* Ticks the clock may advance.
MaxTime == 2
\* Characters in a string of a JSON value.
MaxStr == 3
\* Days between a task's due date and today, either way.
MaxDays == 3

\* ----------------------------------------------------- program constants
\* The clock ticks every two hours; times are in ticks.
\* 4 * 60 * 60 * 1000 ms
DueCoolDown == 2
\* 2 * 60 * 60 * 1000 ms
FocusCoolDown == 1
\* log.slice(-50)
LogCap == 50
\* openTasks.slice(0, 5) of the focus reminder
FocusDigestCap == 5
\* sixMonthsAgo.setMonth(getMonth() - 6): half a year, in days
HalfYearDays == 183
\* log.slice(-500) of POST /api/completion-log
CompletionCap == 500
\* threeDays.setDate(today.getDate() + 3)
HorizonDays == 3
\* today.setHours(0,0,0,0): a day is twelve ticks
TicksPerDay == 12
\* 86400000 ms, in hours
HoursPerDay == 24

\* ------------------------------------------------------------------ text
\* Strings whose content the code inspects are sequences of characters.
TagDue == <<"D", "u", "e">>
TagFocus == <<"F", "o", "c", "u", "s">>

\* String.prototype.includes
Includes(s, sub) ==
  \E i \in 1..(Len(s) - Len(sub) + 1) : SubSeq(s, i, i + Len(sub) - 1) = sub

\* The formatted date and clock texts (toLocaleDateString, toLocaleTimeString)
\* are made of digits, punctuation, AM/PM and weekday and month names, none of
\* which contains a gate tag; each is one opaque character here.
DateStr == <<"<date>">>
TimeStr == <<"<time>">>

SubjMorning ==
  <<"*", " ", "M", "o", "r", "n", "i", "n", "g", " ", "B", "r", "i", "e", "f",
    "i", "n", "g", " ", "-", " ">> \o DateStr
SubjTest ==
  <<"*", " ", "T", "e", "s", "t", " ", "B", "r", "i", "e", "f", "i", "n", "g",
    " ", "-", " ">> \o TimeStr
SubjFocus ==
  <<"@", " ", "F", "o", "c", "u", "s", " ", "C", "h", "e", "c", "k", "-", "i",
    "n", " ", "-", " ">> \o TimeStr
SubjWeekly ==
  <<"?", " ", "W", "e", "e", "k", "l", "y", " ", "T", "a", "s", "k", " ", "S",
    "u", "g", "g", "e", "s", "t", "i", "o", "n", "s", " ", "-", " ">> \o DateStr
\* 'Tasks Need Attention'
SubjDueDefault ==
  <<"T", "a", "s", "k", "s", " ", "N", "e", "e", "d", " ", "A", "t", "t", "e",
    "n", "t", "i", "o", "n">>
\* The urgency subject's leading emoji and blank.
DuePrefix == <<"!", " ">>

\* ---------------------------------------------------------- JSON values
\* Values of a decision's judgment field, by the JSON text that produced
\* them: true, false, the field missing, and a non-empty string.
JsTrue == "true"
JsFalse == "false"
JsUndefined == "undefined"
JsString == "'no'"
JsVals == {JsTrue, JsFalse, JsUndefined, JsString}

\* JavaScript truthiness, as `if (decision.shouldNotify)` applies it.
Truthy(v) == v \in {JsTrue, JsString}

\* Subjects the oracle may put in a decision: none (<<>>), or a text.
OracleSubjects ==
  { <<>>,
    <<"R", "e", "n", "t", " ", "D", "u", "e">>,
    <<"F", "o", "c", "u", "s", " ", "n", "o", "w">> }

\* decision.subject || 'Tasks Need Attention'
DueSubject(subject) ==
  DuePrefix \o (IF subject = <<>> THEN SubjDueDefault ELSE subject)

\* ------------------------------------------------------------ user data
\* A task: done, priority, and dueDate as <<>> (null) or <<day number>>.
TaskUrgent == [done |-> FALSE, priority |-> "high", dueDate |-> <<0>>]
TaskLow == [done |-> FALSE, priority |-> "low", dueDate |-> <<>>]
TaskDone == [done |-> TRUE, priority |-> "high", dueDate |-> <<0>>]
TaskLists == { <<>>, <<TaskUrgent>>, <<TaskDone, TaskLow>>, <<TaskDone>> }

GoalOpen == [achieved |-> FALSE]
GoalAchieved == [achieved |-> TRUE]
GoalLists == { <<>>, <<GoalOpen>>, <<GoalAchieved>> }

\* The clock counts ticks from a Sunday 00:00, so that (now \div TicksPerDay) % 7
\* is Date.prototype.getDay().  The process is observed from a Friday evening
\* on, MaxTime ticks before Saturday begins.
\* day === 6
Saturday == 6
StartTime == Saturday * TicksPerDay - MaxTime

\* tasks.filter(t => !t.done)
OpenTasks(tasks) == SelectSeq(tasks, LAMBDA t : ~t.done)

\* goals.filter(g => !g.achieved)
OpenGoals(goals) == SelectSeq(goals, LAMBDA g : ~g.achieved)

\* A variant of the urgency filter that keeps finished tasks.
UrgentTasksAnyState(tasks, today) ==
  SelectSeq(tasks, LAMBDA t :
    /\ t.dueDate # <<>>
    /\ t.dueDate[1] <= today + HorizonDays)

\* tasks.filter(t => !(t.done || !t.dueDate) && due <= threeDays)
UrgentTasks(tasks, today) ==
  SelectSeq(tasks, LAMBDA t :
    /\ ~t.done
    /\ t.dueDate # <<>>
    /\ t.dueDate[1] <= today + HorizonDays)

\* tasks.filter(t => !t.done && t.priority !== 'low')
FocusTasks(tasks) == SelectSeq(tasks, LAMBDA t : ~t.done /\ t.priority # "low")

\* A variant that takes Sunday alone for the weekend.
IsWeekendSundayOnly(day) == day % 7 = 0

\* day === 0 || day === 6
IsWeekend(day) == day % 7 = 0 \/ day % 7 = Saturday

\* ------------------------------------------------------ gate and notifier
\* A variant of the gate with fixed windows: an entry counts when it was
\* sent in the window of length coolDown that holds the present moment.
RecentlySentFixedWindow(log, tag, coolDown, t) ==
  \E i \in 1..Len(log) :
    Includes(log[i].type, tag) /\ (t \div coolDown) = (log[i].sentAt \div coolDown)

\* log.some(n => n.type.includes(tag) && (Date.now() - new Date(n.sentAt)) < coolDown)
\* sentAt is written by toISOString and read back by new Date: an exact round
\* trip of the millisecond time stamp.
RecentlySent(log, tag, coolDown, t) ==
  \E i \in 1..Len(log) :
    Includes(log[i].type, tag) /\ (t - log[i].sentAt) < coolDown

\* slice(0, n)
FirstN(s, n) == IF Len(s) <= n THEN s ELSE SubSeq(s, 1, n)

\* A variant of slice(-n) that keeps the first n: slice(0, n).
LastNFromHead(s, n) == IF Len(s) <= n THEN s ELSE SubSeq(s, 1, n)

\* A variant of slice(-n) that drops nothing.
LastNKeepAll(s, n) == s

\* Array.prototype.slice(-n)
LastN(s, n) == IF Len(s) <= n THEN s ELSE SubSeq(s, Len(s) - n + 1, Len(s))

\* A variant of the write in which the row keeps what it holds and takes
\* the newest entry of the value.
SetValueMerged(held, value) ==
  IF value = <<>> THEN held ELSE Append(held, value[Len(value)])

\* dbSet: ON CONFLICT (key) DO UPDATE SET value = $2.  The row takes the
\* value written, whatever it held.
SetValue(held, value) == value

\* A variant of the Notifier that keeps its log under completion_log.
LogKeyCompletion == "completion_log"

\* dbSet('notification_log', ...): the one key sendEmail writes.
LogKey == "notification_log"

\* emailTemplate(title, body, color): the title and the body it wraps.
EmailTemplate(title, body) == <<title, body>>

\* ------------------------------------------------------------ the oracle
\* The text of an oracle reply, by what JSON.parse makes of it: an object
\* with a judgment field and a subject, the JSON value null, or no JSON.
RawReplies ==
  [json : {"object"}, flag : JsVals, subject : OracleSubjects]
    \cup { [json |-> "null", flag |-> JsUndefined, subject |-> <<>>],
           [json |-> "garbage", flag |-> JsUndefined, subject |-> <<>>] }

\* parseJSON: throws on text that is not JSON.
ParseJSONThrows(raw) == raw.json = "garbage"

\* decision.shouldNotify / decision.shouldSend throws a TypeError on null.
FieldReadThrows(raw) == raw.json = "null"

\* --------------------------------------------------------------- firings
JobKinds == {"morning", "due", "focus", "weekly"}
\* Handlers in flight at once: two slots, each reused once its firing returned;
\* which slot a handler runs in is nothing the program can observe.
Slots == {1, 2}
\* Names a trigger request may carry in :job.
JobNames == JobKinds \cup {"bogus"}

VARIABLES
  store,     \* the key-value table, a row for each of its seven keys
  now,       \* the clock, in ticks
  creds,     \* GMAIL_USER and GMAIL_APP_PASSWORD are both set
  schedule,  \* the cron expression each job's timer was registered with
  timers,    \* the job kinds whose timer is registered
  running,   \* the process is alive
  firings,   \* the bag of handlers in flight or just returned
  started,   \* firings started so far
  db,        \* the database table as rows of text, where a specification
             \* follows dbGet, dbSet and initDb themselves
  call       \* a call of a pure function: its arguments and its result

vars == <<store, now, creds, schedule, timers, running, firings, started, db, call>>

\* The specifications of the jobs keep the table as its logical content,
\* store; they leave db and call alone.
units == <<db, call>>
NoUnit == <<>>

Today == now \div TicksPerDay

\* A firing as it starts: the callback has called dbGet('tasks').
NewFiring(kind, job, t) ==
  [kind |-> kind, job |-> job, pc |-> "getTasks",
   seenTasks |-> <<>>, seenGoals |-> <<>>, seenHistory |-> <<>>,
   flag |-> "none",
   subject |-> <<>>, html |-> <<>>, pending |-> <<>>,
   trace |-> <<>>, outcome |-> "none", response |-> "none", message |-> <<>>,
   body |-> <<>>]

Ev(r, e) == [r EXCEPT !.trace = Append(@, e)]

\* The firing returns: its locals are dropped, its history is kept.
Finish(r, outcome) ==
  [r EXCEPT !.pc = "done", !.outcome = outcome,
            !.subject = <<>>, !.html = <<>>, !.pending = <<>>]

\* catch (err) { console.error(...) }
Catch(r, e) == Finish(Ev(r, e), "Failed")

\* A variant in which the weekly job awaits outside any try block.
InTryNotWeekly(kind, pc) == kind # "weekly"

\* Every await of the job callbacks and of the trigger body is inside the
\* handler's try block.
InTry(kind, pc) == TRUE

\* A variant of callClaude that waits for an answer that never comes.
CallClaudeHangs(r) == [Ev(r, "ask") EXCEPT !.pc = "pending"]

\* callClaude starts with dbGet('memory').
CallClaude(r) == [Ev(r, "ask") EXCEPT !.pc = "getMemory"]

\* A variant of sendEmail that goes to the transport whatever is configured.
SendEmailAlways(r, subject, html, configured) ==
  [Ev(r, "notify") EXCEPT !.pc = "sendMail", !.subject = subject, !.html = html]

\* A variant of sendEmail that logs the message before handing it to the
\* transport, configured or not.
SendEmailLogsFirst(r, subject, html, configured) ==
  [Ev(r, "notify") EXCEPT !.pc = "emailGetLog", !.subject = subject, !.html = html]

\* sendEmail up to its first await.
SendEmail(r, subject, html, configured) ==
  IF ~configured
    THEN Finish(Ev(r, "notify"), "Unconfigured")
    ELSE [Ev(r, "notify") EXCEPT !.pc = "sendMail", !.subject = subject, !.html = html]

\* The message body the oracle wrote.
Body == "m"

\* A variant that accepts the name of each of the four jobs.
TriggerAcceptsAny(job) == job \in {"morning", "due", "focus", "weekly"}

\* POST /api/trigger/:job accepts one name.
TriggerAccepts(job) == job = "morning"

\* A variant that starts the body and leaves the answer for later.
TriggerStartSilent(job, t) == NewFiring("trigger", job, t)

\* The message of the trigger's answer: a fixed text, or `Unknown job: ${job}`.
TriggerMessage(job) ==
  IF TriggerAccepts(job)
    THEN <<"Morning briefing triggered">>
    ELSE <<"Unknown job: ", job>>

\* A variant that answers an unknown name as rejected and runs the body all
\* the same.
TriggerStartRunsAnyway(job, t) ==
  [Ev(NewFiring("trigger", job, t), "respond") EXCEPT
     !.response = IF TriggerAccepts(job) THEN "accepted" ELSE "rejected",
     !.message = TriggerMessage(job)]

\* The trigger handler up to its first await: it answers, then starts the body.
TriggerStart(job, t) ==
  IF TriggerAccepts(job)
    THEN [Ev(NewFiring("trigger", job, t), "respond") EXCEPT
            !.response = "accepted", !.message = TriggerMessage(job)]
    ELSE Finish([Ev(NewFiring("trigger", job, t), "respond") EXCEPT
                   !.response = "rejected", !.message = TriggerMessage(job)],
                "Rejected")

\* After dbGet('tasks'): the next read each handler makes.
AfterTasks(r, tasks) ==
  [Ev(r, "read") EXCEPT
     !.seenTasks = tasks,
     !.pc = CASE r.kind \in {"due", "focus"} -> "getLog"
              [] r.kind = "weekly" -> "getCompletion"
              [] OTHER -> "getGoals"]

\* A variant of the due check that asks the oracle without consulting the log.
DueAfterLogUngated(r, log, t, today) ==
  IF UrgentTasks(r.seenTasks, today) = <<>>
    THEN Finish(Ev(r, "read"), "Skipped")
    ELSE CallClaude(Ev(r, "read"))

\* Due check, from the log read to the oracle call.
DueAfterLog(r, log, t, today) ==
  LET r1 == Ev(r, "read") IN
  IF UrgentTasks(r.seenTasks, today) = <<>>
    THEN Finish(r1, "Skipped")
    ELSE IF RecentlySent(log, TagDue, DueCoolDown, t)
      THEN Finish(Ev(r1, "gate"), "Suppressed")
      ELSE CallClaude(Ev(r1, "gate"))

\* Focus reminder, from the log read to the oracle call.
FocusAfterLog(r, log, t, today) ==
  LET r1 == Ev(r, "read") IN
  IF FocusTasks(r.seenTasks) = <<>> \/ IsWeekend(today)
    THEN Finish(r1, "Skipped")
    ELSE IF RecentlySent(log, TagFocus, FocusCoolDown, t)
      THEN Finish(Ev(r1, "gate"), "Suppressed")
      ELSE CallClaude(Ev(r1, "gate"))

\* After dbGet('goals'): the morning briefing skips when nothing is open;
\* the weekly suggestions and the trigger body always go on.
AfterGoals(r, goals) ==
  LET r1 == [Ev(r, "read") EXCEPT !.seenGoals = goals] IN
  IF r.kind = "morning" /\ OpenTasks(r.seenTasks) = <<>> /\ OpenGoals(goals) = <<>>
    THEN Finish(r1, "Skipped")
    ELSE CallClaude(r1)

\* A variant that takes a reply it cannot parse for a decision to notify.
JudgeLenient(r, raw, subject, title, configured) ==
  IF ParseJSONThrows(raw) \/ FieldReadThrows(raw)
    THEN SendEmail(Ev(r, "parseErr"), subject, EmailTemplate(title, Body), configured)
    ELSE LET r1 == [Ev(Ev(r, "parse"), "judge") EXCEPT !.flag = raw.flag] IN
         IF Truthy(raw.flag)
           THEN SendEmail(r1, subject, EmailTemplate(title, Body), configured)
           ELSE Finish(r1, "Declined")

\* A variant that records a negative judgment in the notification log.
JudgeLogsDeclined(r, raw, subject, title, configured) ==
  IF ParseJSONThrows(raw)
    THEN Catch(r, "parseErr")
    ELSE IF FieldReadThrows(raw)
      THEN Catch(Ev(r, "parse"), "typeErr")
      ELSE LET r1 == [Ev(Ev(r, "parse"), "judge") EXCEPT !.flag = raw.flag] IN
           IF Truthy(raw.flag)
             THEN SendEmail(r1, subject, EmailTemplate(title, Body), configured)
             ELSE [r1 EXCEPT !.pc = "emailGetLog", !.subject = subject,
                             !.html = EmailTemplate(title, Body)]

\* A judgment job after the oracle replied: parse, read the flag, deliver.
Judge(r, raw, subject, title, configured) ==
  IF ParseJSONThrows(raw)
    THEN Catch(r, "parseErr")
    ELSE IF FieldReadThrows(raw)
      THEN Catch(Ev(r, "parse"), "typeErr")
      ELSE LET r1 == [Ev(Ev(r, "parse"), "judge") EXCEPT !.flag = raw.flag] IN
           IF Truthy(raw.flag)
             THEN SendEmail(r1, subject, EmailTemplate(title, Body), configured)
             ELSE Finish(r1, "Declined")

\* A variant in which only the timer-driven jobs deliver.
AfterFetchTimersOnly(r, raw, configured) ==
  LET r1 == Ev(r, "oracleOk") IN
  CASE r.kind = "due" ->
         Judge(r1, raw, DueSubject(raw.subject), "Tasks Due Soon", configured)
    [] r.kind = "focus" ->
         Judge(r1, raw, SubjFocus, "Stay Focused", configured)
    [] r.kind = "morning" ->
         SendEmail(r1, SubjMorning, EmailTemplate("Your Morning Briefing", Body), configured)
    [] r.kind = "weekly" ->
         SendEmail(r1, SubjWeekly, EmailTemplate("Tasks You Might Be Missing", Body), configured)
    [] OTHER -> Finish(r1, "Skipped")

\* A variant in which the morning briefing parses the reply as a decision.
AfterFetchJudgesAll(r, raw, configured) ==
  LET r1 == Ev(r, "oracleOk") IN
  CASE r.kind = "due" ->
         Judge(r1, raw, DueSubject(raw.subject), "Tasks Due Soon", configured)
    [] r.kind = "focus" ->
         Judge(r1, raw, SubjFocus, "Stay Focused", configured)
    [] r.kind = "morning" ->
         Judge(r1, raw, SubjMorning, "Your Morning Briefing", configured)
    [] r.kind = "weekly" ->
         SendEmail(r1, SubjWeekly, EmailTemplate("Tasks You Might Be Missing", Body), configured)
    [] OTHER ->
         SendEmail(r1, SubjTest, EmailTemplate("Test Morning Briefing", Body), configured)

\* After the oracle replied: what each handler does with the text.
AfterFetch(r, raw, configured) ==
  LET r1 == Ev(r, "oracleOk") IN
  CASE r.kind = "due" ->
         Judge(r1, raw, DueSubject(raw.subject), "Tasks Due Soon", configured)
    [] r.kind = "focus" ->
         Judge(r1, raw, SubjFocus, "Stay Focused", configured)
    [] r.kind = "morning" ->
         SendEmail(r1, SubjMorning, EmailTemplate("Your Morning Briefing", Body), configured)
    [] r.kind = "weekly" ->
         SendEmail(r1, SubjWeekly, EmailTemplate("Tasks You Might Be Missing", Body), configured)
    [] OTHER ->
         SendEmail(r1, SubjTest, EmailTemplate("Test Morning Briefing", Body), configured)

\* A variant of sendEmail that puts its entry at the head of the log.
EmailAfterLogUnshift(r, log, t) ==
  [Ev(r, "read") EXCEPT
     !.pc = "emailSetLog",
     !.pending = <<[type |-> r.subject, sentAt |-> t, html |-> r.html]>> \o log]

\* A variant of sendEmail that pushes its entry twice.
EmailAfterLogTwice(r, log, t) ==
  LET e == [type |-> r.subject, sentAt |-> t, html |-> r.html] IN
  [Ev(r, "read") EXCEPT !.pc = "emailSetLog", !.pending = Append(Append(log, e), e)]

\* sendEmail after dbGet('notification_log'): push the entry onto the local
\* log and start the write of its last LogCap entries.
EmailAfterLog(r, log, t) ==
  [Ev(r, "read") EXCEPT
     !.pc = "emailSetLog",
     !.pending = Append(log, [type |-> r.subject, sentAt |-> t, html |-> r.html])]

\* ---------------------------------------------------------------- actions
\* The rows of the table besides tasks, goals and notification_log hold
\* what initDb inserted: "" for memory, [] for the lists.
WithDefaults(c) ==
  [tasks |-> c.tasks, goals |-> c.goals, notification_log |-> c.notification_log,
   memory |-> <<>>, projects |-> <<>>, notes |-> <<>>, completion_log |-> <<>>]

\* The tables with the given tasks, goals and notification logs.
Table(contents) == {WithDefaults(c) : c \in contents}

\* process.env.*_CRON || the default expression
DefaultSchedule ==
  [morning |-> "0 8 * * *", due |-> "0 9-17 * * *",
   focus |-> "30 9-17/1 * * *", weekly |-> "0 8 * * 1"]
\* The stored tasks and goals: nothing; one task due; one open task of low
\* priority beside a finished one, with a goal achieved; nothing open but a
\* goal.
Datasets ==
  { <<<<>>, <<>>>>,
    <<<<TaskUrgent>>, <<>>>>,
    <<<<TaskDone, TaskLow>>, <<GoalAchieved>>>>,
    <<<<TaskDone>>, <<GoalOpen>>>> }

\* In(r): firing r is among the handlers in flight or just returned.
In(r) == BagIn(r, firings)

\* The handlers with r replaced by r2; Put and Drop add and remove one.
Put(r) == firings (+) SetToBag({r})
Drop(r) == firings (-) SetToBag({r})
Replace(r, r2) == Drop(r) (+) SetToBag({r2})

\* A new handler can start while fewer than the slots' number are in flight.
Free == BagCardinality(firings) < Cardinality(Slots)

\* No firing has just returned.  A returned firing keeps its record, as its
\* history, for one step (Forget), taken before anything else happens: the
\* record is nothing a handler can read, so no behaviour of the program is lost.
Quiet == \A r \in BagToSet(firings) : r.pc # "done"

\* The process is alive and may take a step.
Ready == running /\ Quiet

\* Cron expressions the environment may configure for the morning briefing.
Schedules ==
  { DefaultSchedule,
    [DefaultSchedule EXCEPT !.morning = "0 6 * * *"],
    [DefaultSchedule EXCEPT !.morning = "*/5 * * * *"] }

\* The state once start() has run initDb and registered the four timers.
Boot(schedules) ==
  /\ store \in Table([tasks : TaskLists, goals : GoalLists, notification_log : {<<>>}])
  /\ <<store.tasks, store.goals>> \in Datasets
  /\ now = StartTime
  /\ creds \in BOOLEAN
  /\ schedule \in schedules
  /\ timers = JobKinds
  /\ running = TRUE
  /\ firings = EmptyBag
  /\ started = 0
  /\ db = NoUnit
  /\ call = NoUnit

Init == Boot({DefaultSchedule})

Active(r, pc) == Ready /\ In(r) /\ r.pc = pc

Step(r, r2) ==
  /\ firings' = Replace(r, r2)
  /\ UNCHANGED <<now, creds, schedule, timers, running, started>>
  /\ UNCHANGED units

\* A variant that calls the oracle again after a failed call.
OnOracleErrorRetry(r) == CallClaude(Ev(r, "oracleErr"))

\* callClaude throws on a failed fetch or a non-ok response; no handler
\* calls it again.
OnOracleError(r) == Catch(r, "oracleErr")

\* An await of firing r rejects: the handler's catch block takes it; a
\* rejection outside a try block would end the process.
Throw(r, e) ==
  /\ IF InTry(r.kind, r.pc)
       THEN /\ firings' = Replace(r, IF e = "oracleErr" THEN OnOracleError(r)
                                                        ELSE Catch(r, e))
            /\ UNCHANGED <<timers, running>>
       ELSE /\ firings' = Replace(r, Finish(Ev(r, e), "Crashed"))
            /\ timers' = {}
            /\ running' = FALSE
  /\ UNCHANGED <<store, now, creds, schedule, started>>
  /\ UNCHANGED units

Tick ==
  /\ Ready
  /\ now < StartTime + MaxTime
  /\ now' = now + 1
  /\ UNCHANGED <<store, creds, schedule, timers, running, firings, started>>
  /\ UNCHANGED units

\* A job's timer fires.
Fire(kind) ==
  /\ Ready
  /\ kind \in timers
  /\ started < MaxFirings
  /\ Free
  /\ firings' = Put(NewFiring(kind, kind, now))
  /\ started' = started + 1
  /\ UNCHANGED <<store, now, creds, schedule, timers, running>>
  /\ UNCHANGED units

\* POST /api/trigger/:job
Trigger(job) ==
  /\ Ready
  /\ started < MaxFirings
  /\ Free
  /\ firings' = Put(TriggerStart(job, now))
  /\ started' = started + 1
  /\ UNCHANGED <<store, now, creds, schedule, timers, running>>
  /\ UNCHANGED units

TasksRead(r) ==
  /\ Active(r, "getTasks")
  /\ Step(r, AfterTasks(r, store.tasks))
  /\ UNCHANGED store

LogRead(r) ==
  /\ Active(r, "getLog")
  /\ Step(r, IF r.kind = "due"
               THEN DueAfterLog(r, store.notification_log, now, Today)
               ELSE FocusAfterLog(r, store.notification_log, now, Today))
  /\ UNCHANGED store

CompletionRead(r) ==
  /\ Active(r, "getCompletion")
  /\ Step(r, [Ev(r, "read") EXCEPT !.pc = "getGoals",
                                   !.seenHistory = store.completion_log])
  /\ UNCHANGED store

GoalsRead(r) ==
  /\ Active(r, "getGoals")
  /\ Step(r, AfterGoals(r, store.goals))
  /\ UNCHANGED store

MemoryRead(r) ==
  /\ Active(r, "getMemory")
  /\ Step(r, [Ev(r, "read") EXCEPT !.pc = "fetch"])
  /\ UNCHANGED store

OracleReplies(r, raw) ==
  /\ Active(r, "fetch")
  /\ Step(r, AfterFetch(r, raw, creds))
  /\ UNCHANGED store

OracleFails(r) ==
  /\ Active(r, "fetch")
  /\ Throw(r, "oracleErr")

StoreFails(r) ==
  /\ Ready
  /\ In(r)
  /\ r.pc \in {"getTasks", "getLog", "getCompletion", "getGoals",
               "getMemory", "emailGetLog", "emailSetLog"}
  /\ Throw(r, "storeErr")

MailSent(r) ==
  /\ Active(r, "sendMail")
  /\ Step(r, [Ev(r, "send") EXCEPT !.pc = "emailGetLog"])
  /\ UNCHANGED store

MailFails(r) ==
  /\ Active(r, "sendMail")
  /\ Throw(r, "mailErr")

EmailLogRead(r) ==
  /\ Active(r, "emailGetLog")
  /\ Step(r, EmailAfterLog(r, store.notification_log, now))
  /\ UNCHANGED store

EmailLogWritten(r) ==
  /\ Active(r, "emailSetLog")
  /\ store' = [store EXCEPT ![LogKey] = SetValue(@, LastN(r.pending, LogCap))]
  /\ Step(r, Finish(Ev(r, "write"), "Delivered"))

\* The callback has returned: its record is dropped.
Forget(r) ==
  /\ In(r)
  /\ r.pc = "done"
  /\ firings' = Drop(r)
  /\ UNCHANGED <<store, now, creds, schedule, timers, running, started>>
  /\ UNCHANGED units

\* The handlers in the state.
Firings == BagToSet(firings)

Next ==
  \/ Tick
  \/ \E r \in Firings : Forget(r)
  \/ \E kind \in JobKinds : Fire(kind)
  \/ \E job \in JobNames : Trigger(job)
  \/ \E r \in Firings : TasksRead(r)
  \/ \E r \in Firings : LogRead(r)
  \/ \E r \in Firings : CompletionRead(r)
  \/ \E r \in Firings : GoalsRead(r)
  \/ \E r \in Firings : MemoryRead(r)
  \/ \E r \in Firings, raw \in RawReplies : OracleReplies(r, raw)
  \/ \E r \in Firings : OracleFails(r)
  \/ \E r \in Firings : StoreFails(r)
  \/ \E r \in Firings : MailSent(r)
  \/ \E r \in Firings : MailFails(r)
  \/ \E r \in Firings : EmailLogRead(r)
  \/ \E r \in Firings : EmailLogWritten(r)

Spec == Init /\ [][Next]_vars

\* ------------------------------------------------- the manual trigger alone
\* Trigger requests only, under any configured schedule.
InitTrigger == Boot(Schedules)

NextTrigger ==
  \/ Tick
  \/ \E r \in Firings : Forget(r)
  \/ \E job \in JobNames : Trigger(job)
  \/ \E r \in Firings : TasksRead(r)
  \/ \E r \in Firings : GoalsRead(r)
  \/ \E r \in Firings : MemoryRead(r)
  \/ \E r \in Firings, raw \in RawReplies : OracleReplies(r, raw)
  \/ \E r \in Firings : OracleFails(r)
  \/ \E r \in Firings : StoreFails(r)
  \/ \E r \in Firings : MailSent(r)
  \/ \E r \in Firings : MailFails(r)
  \/ \E r \in Firings : EmailLogRead(r)
  \/ \E r \in Firings : EmailLogWritten(r)

SpecTrigger == InitTrigger /\ [][NextTrigger]_vars

\* ------------------------------------------ the notifier and a long log
\* A log of n earlier briefings, one per tick, the last one tick old.
PriorLog(n) ==
  [k \in 1..n |->
     [type |-> SubjMorning, sentAt |-> StartTime - 1 - (n - k),
      html |-> EmailTemplate("Your Morning Briefing", Body)]]

\* The jobs that deliver whenever there is something to report run, alone or
\* overlapping, over a log that is empty, one short of full, or full.
InitNotifier ==
  /\ store \in Table([tasks : {<<TaskDone, TaskLow>>}, goals : {<<GoalAchieved>>},
                 notification_log : {PriorLog(0), PriorLog(LogCap - 1), PriorLog(LogCap)}])
  /\ now = StartTime
  /\ creds = TRUE
  /\ schedule = DefaultSchedule
  /\ timers = JobKinds
  /\ running = TRUE
  /\ firings = EmptyBag
  /\ started = 0
  /\ db = NoUnit
  /\ call = NoUnit

NextNotifier ==
  \/ Tick
  \/ \E r \in Firings : Forget(r)
  \/ Fire("morning")
  \/ Trigger("morning")
  \/ \E r \in Firings : TasksRead(r)
  \/ \E r \in Firings : GoalsRead(r)
  \/ \E r \in Firings : MemoryRead(r)
  \/ \E r \in Firings, raw \in RawReplies : OracleReplies(r, raw)
  \/ \E r \in Firings : MailSent(r)
  \/ \E r \in Firings : MailFails(r)
  \/ \E r \in Firings : StoreFails(r)
  \/ \E r \in Firings : EmailLogRead(r)
  \/ \E r \in Firings : EmailLogWritten(r)

SpecNotifier == InitNotifier /\ [][NextNotifier]_vars

\* ------------------------------------- the urgency check, one after another
\* The due check fires again and again, each firing after the one before it
\* has returned; a task is due, the mail credentials are set, every await
\* succeeds and the oracle always answers shouldNotify: true.
InitUrgency ==
  /\ Init
  /\ creds
  /\ store.tasks = <<TaskUrgent>>

FireDueAlone ==
  /\ firings = EmptyBag
  /\ Fire("due")

OracleSaysNotify(r, raw) ==
  /\ raw.json = "object"
  /\ raw.flag = JsTrue
  /\ OracleReplies(r, raw)

NextUrgency ==
  \/ Tick
  \/ \E r \in Firings : Forget(r)
  \/ FireDueAlone
  \/ \E r \in Firings : TasksRead(r)
  \/ \E r \in Firings : LogRead(r)
  \/ \E r \in Firings : MemoryRead(r)
  \/ \E r \in Firings, raw \in RawReplies : OracleSaysNotify(r, raw)
  \/ \E r \in Firings : MailSent(r)
  \/ \E r \in Firings : EmailLogRead(r)
  \/ \E r \in Firings : EmailLogWritten(r)

SpecUrgency == InitUrgency /\ [][NextUrgency]_vars

\* ------------------------------------------------------- text and JSON
\* Texts are sequences of characters.  The characters that matter to the
\* code are the backtick, the newline, the blank, the quote and the
\* backslash.
\* (the backtick is written as a word: the character cannot stand in a TLA+ string)
BT == "backtick"
NL == "\n"
SP == " "
QT == "\""
BS == "\\"
Fence == <<BT, BT, BT>>

\* White space as String.prototype.trim and JSON.parse see it.
IsSpace(c) == c \in {SP, NL}

RECURSIVE TrimStart(_)
TrimStart(s) == IF s # <<>> /\ IsSpace(Head(s)) THEN TrimStart(Tail(s)) ELSE s

RECURSIVE TrimEnd(_)
TrimEnd(s) ==
  IF s # <<>> /\ IsSpace(s[Len(s)]) THEN TrimEnd(SubSeq(s, 1, Len(s) - 1)) ELSE s

\* String.prototype.trim
Trim(s) == TrimEnd(TrimStart(s))

\* String.prototype.startsWith, endsWith
StartsWith(s, pre) == Len(s) >= Len(pre) /\ SubSeq(s, 1, Len(pre)) = pre
EndsWith(s, suf) ==
  Len(s) >= Len(suf) /\ SubSeq(s, Len(s) - Len(suf) + 1, Len(s)) = suf

\* String.prototype.indexOf, for one character: 0-based, -1 when absent.
IndexOf(s, c) ==
  IF \E i \in 1..Len(s) : s[i] = c
    THEN (CHOOSE i \in 1..Len(s) : s[i] = c /\ \A j \in 1..(i - 1) : s[j] # c) - 1
    ELSE -1

\* String.prototype.lastIndexOf: 0-based, -1 when absent.
LastIndexOf(s, sub) ==
  LET at == {i \in 1..(Len(s) - Len(sub) + 1) : SubSeq(s, i, i + Len(sub) - 1) = sub}
  IN IF at = {} THEN -1 ELSE (CHOOSE i \in at : \A j \in at : j <= i) - 1

\* String.prototype.slice(from) and slice(0, to), for from, to >= 0.
SliceFrom(s, from) == SubSeq(s, from + 1, Len(s))
SliceTo(s, to) == SubSeq(s, 1, to)

\* A variant of the fence stripping that leaves the opening fence line.
StripFencesTailOnly(raw) ==
  LET s0 == Trim(raw)
  IN IF EndsWith(s0, Fence) THEN Trim(SliceTo(s0, LastIndexOf(s0, Fence))) ELSE s0

\* parseJSON up to JSON.parse: trim, drop the opening fence line, drop the
\* closing fence and trim again.
StripFences(raw) ==
  LET s0 == Trim(raw)
      s1 == IF StartsWith(s0, Fence) THEN SliceFrom(s0, IndexOf(s0, NL) + 1) ELSE s0
  IN IF EndsWith(s1, Fence) THEN Trim(SliceTo(s1, LastIndexOf(s1, Fence))) ELSE s1

\* JSON values: numbers (naturals here, compared by their numeric value),
\* strings, arrays and null; a value carries its kind t and, by kind, its
\* number n, its characters s or its elements a.
JNum(n) == [t |-> "num", n |-> n, s |-> <<>>, a |-> <<>>]
JStr(chars) == [t |-> "str", n |-> 0, s |-> chars, a |-> <<>>]
JArr(elems) == [t |-> "arr", n |-> 0, s |-> <<>>, a |-> elems]
JNull == [t |-> "null", n |-> 0, s |-> <<>>, a |-> <<>>]

DigitChars == <<"0", "1", "2", "3", "4", "5", "6", "7", "8", "9">>
IsDigit(c) == \E i \in 1..Len(DigitChars) : DigitChars[i] = c
DigitValue(c) == (CHOOSE i \in 1..Len(DigitChars) : DigitChars[i] = c) - 1

RECURSIVE Digits(_)
Digits(n) ==
  IF n < 10 THEN <<DigitChars[n + 1]>>
            ELSE Digits(n \div 10) \o <<DigitChars[(n % 10) + 1]>>

RECURSIVE Escape(_)
Escape(chars) ==
  IF chars = <<>> THEN <<>>
  ELSE (CASE Head(chars) = QT -> <<BS, QT>>
          [] Head(chars) = BS -> <<BS, BS>>
          [] Head(chars) = NL -> <<BS, "n">>
          [] OTHER -> <<Head(chars)>>) \o Escape(Tail(chars))

\* JSON.stringify
RECURSIVE Stringify(_)
RECURSIVE StringifyElems(_)
StringifyElems(elems) ==
  IF elems = <<>> THEN <<>>
  ELSE Stringify(Head(elems))
         \o (IF Tail(elems) = <<>> THEN <<>> ELSE <<",">> \o StringifyElems(Tail(elems)))
Stringify(val) ==
  CASE val.t = "num" -> Digits(val.n)
    [] val.t = "str" -> <<QT>> \o Escape(val.s) \o <<QT>>
    [] val.t = "arr" -> <<"[">> \o StringifyElems(val.a) \o <<"]">>
    [] OTHER -> <<"n", "u", "l", "l">>

\* JSON.parse, by recursive descent; ok is FALSE where it throws SyntaxError.
ParseFail == [ok |-> FALSE, val |-> JNull, rest |-> <<>>]
ParseOk(val, rest) == [ok |-> TRUE, val |-> val, rest |-> rest]

RECURSIVE ParseNumber(_, _, _)
ParseNumber(s, n, len) ==
  IF s # <<>> /\ IsDigit(Head(s))
    THEN IF len >= 1 /\ n = 0 THEN ParseFail
         ELSE ParseNumber(Tail(s), 10 * n + DigitValue(Head(s)), len + 1)
    ELSE ParseOk(JNum(n), s)

RECURSIVE ParseString(_, _)
ParseString(s, acc) ==
  IF s = <<>> \/ Head(s) = NL THEN ParseFail
  ELSE IF Head(s) = QT THEN ParseOk(JStr(acc), Tail(s))
  ELSE IF Head(s) = BS
    THEN IF Len(s) < 2 THEN ParseFail
         ELSE IF s[2] \in {QT, BS} THEN ParseString(SubSeq(s, 3, Len(s)), Append(acc, s[2]))
         ELSE IF s[2] = "n" THEN ParseString(SubSeq(s, 3, Len(s)), Append(acc, NL))
         ELSE ParseFail
  ELSE ParseString(Tail(s), Append(acc, Head(s)))

RECURSIVE ParseValue(_)
RECURSIVE ParseElems(_, _)
ParseElems(s0, acc) ==
  LET e == ParseValue(s0) IN
  IF ~e.ok THEN ParseFail
  ELSE LET s == TrimStart(e.rest) IN
       IF s = <<>> THEN ParseFail
       ELSE IF Head(s) = "," THEN ParseElems(Tail(s), Append(acc, e.val))
       ELSE IF Head(s) = "]" THEN ParseOk(JArr(Append(acc, e.val)), Tail(s))
       ELSE ParseFail
ParseValue(s0) ==
  LET s == TrimStart(s0) IN
  IF s = <<>> THEN ParseFail
  ELSE IF IsDigit(Head(s)) THEN ParseNumber(s, 0, 0)
  ELSE IF Head(s) = QT THEN ParseString(Tail(s), <<>>)
  ELSE IF Head(s) = "[" THEN
         LET s1 == TrimStart(Tail(s)) IN
         IF s1 # <<>> /\ Head(s1) = "]" THEN ParseOk(JArr(<<>>), Tail(s1))
         ELSE ParseElems(s1, <<>>)
  ELSE IF StartsWith(s, <<"n", "u", "l", "l">>) THEN ParseOk(JNull, SubSeq(s, 5, Len(s)))
  ELSE ParseFail

JsonParse(s) ==
  LET r == ParseValue(s) IN
  IF r.ok /\ TrimStart(r.rest) = <<>> THEN [ok |-> TRUE, val |-> r.val]
                                      ELSE [ok |-> FALSE, val |-> JNull]

\* parseJSON(raw)
ParseJSON(raw) == JsonParse(StripFences(raw))

\* ----------------------------------------------------- parseJSON alone
\* The variables of the jobs, and their values where no job runs.
jobs == <<store, now, creds, schedule, timers, running, firings, started>>
JobsIdle ==
  /\ store = [tasks |-> <<>>, goals |-> <<>>, notification_log |-> <<>>]
  /\ now = StartTime
  /\ creds = FALSE
  /\ schedule = DefaultSchedule
  /\ timers = {}
  /\ running = FALSE
  /\ firings = EmptyBag
  /\ started = 0

\* The JSON values tried: some numbers, null, every string of up to MaxStr
\* characters that need care, and arrays of up to two simple values.
StrChars == {BT, QT, BS, NL, "a"}
Strings == UNION {[1..k -> StrChars] : k \in 0..MaxStr}
Atoms == {JNum(0), JNum(7), JNull, JStr(<<>>), JStr(Fence)}
JsonValues ==
  {JNum(n) : n \in {0, 7, 10, 120}} \cup {JNull}
    \cup {JStr(c) : c \in Strings}
    \cup {JArr(<<>>)} \cup {JArr(<<a>>) : a \in Atoms}
    \cup {JArr(<<a, b>>) : a, b \in Atoms}

\* White space around a text, and the language word of a fence line.
Pads == {<<>>, <<SP>>, <<NL>>}
LangWords == {<<>>, <<"j", "s", "o", "n">>}

\* payload between an opening fence line and a closing fence.
Fenced(payload, lead, lang, sep, trail) ==
  lead \o Fence \o lang \o <<NL>> \o payload \o sep \o Fence \o trail

InitParse ==
  /\ JobsIdle
  /\ db = NoUnit
  /\ \E v \in JsonValues, lead \in Pads, lang \in LangWords, sep \in Pads, trail \in Pads :
       call = [fn |-> "parseJSON", value |-> v, payload |-> Stringify(v),
               text |-> Fenced(Stringify(v), lead, lang, sep, trail),
               plain |-> <<>>, fenced |-> <<>>]

\* parseJSON(payload)
ParsePlain ==
  /\ call.plain = <<>>
  /\ call' = [call EXCEPT !.plain = <<ParseJSON(call.payload)>>]
  /\ UNCHANGED <<jobs, db>>

\* parseJSON(text)
ParseFenced ==
  /\ call.fenced = <<>>
  /\ call' = [call EXCEPT !.fenced = <<ParseJSON(call.text)>>]
  /\ UNCHANGED <<jobs, db>>

NextParse == ParsePlain \/ ParseFenced

SpecParse == InitParse /\ [][NextParse]_vars

\* ------------------------------------------------------ the store alone
\* The keys initDb knows, and one it does not.
ListKeys == {"tasks", "goals", "notification_log", "projects", "completion_log", "notes"}
KnownKeys == ListKeys \cup {"memory"}
OtherKey == "extra"

\* The value column initDb inserts for a key: '[]', and '""' for memory.
DefaultText(k) == IF k = "memory" THEN <<QT, QT>> ELSE <<"[", "]">>

\* A variant of initDb's INSERT that overwrites the rows it finds.
InsertDefaultsOverwrite(rows) ==
  [k \in DOMAIN rows \cup KnownKeys |->
     IF k \in KnownKeys THEN DefaultText(k) ELSE rows[k]]

\* A variant of initDb's INSERT that leaves out the memory key.
InsertDefaultsLists(rows) ==
  [k \in DOMAIN rows \cup ListKeys |->
     IF k \in DOMAIN rows THEN rows[k] ELSE DefaultText(k)]

\* INSERT ... VALUES (the seven defaults) ON CONFLICT (key) DO NOTHING
InsertDefaults(rows) ==
  [k \in DOMAIN rows \cup KnownKeys |->
     IF k \in DOMAIN rows THEN rows[k] ELSE DefaultText(k)]

\* A variant of dbSet's statement that keeps the row it finds.
UpsertKeep(rows, key, text) ==
  [k \in DOMAIN rows \cup {key} |-> IF k \in DOMAIN rows THEN rows[k] ELSE text]

\* INSERT ... ON CONFLICT (key) DO UPDATE SET value = $2
Upsert(rows, key, text) ==
  [k \in DOMAIN rows \cup {key} |-> IF k = key THEN text ELSE rows[k]]

\* A variant of dbSet's parameter that passes a string as it is.
DbSetTextPlain(value) == IF value.t = "str" THEN value.s ELSE Stringify(value)

\* dbSet's second parameter: JSON.stringify(value)
DbSetText(value) == Stringify(value)

\* What dbGet(key) gives: an error when the query fails, null when there is
\* no row, else JSON.parse of the row's value.
GetError == [status |-> "error", val |-> JNull]
GetNull == [status |-> "null", val |-> JNull]

\* A variant of dbGet that returns parsed || null.
DbGetResultOrNull(table, rows, key) ==
  IF ~table THEN GetError
  ELSE IF key \notin DOMAIN rows THEN GetNull
  ELSE LET parsed == JsonParse(rows[key]) IN
       IF ~parsed.ok THEN GetError
       ELSE IF parsed.val \in {JNull, JStr(<<>>), JNum(0)} THEN GetNull
       ELSE [status |-> "value", val |-> parsed.val]

DbGetResult(table, rows, key) ==
  IF ~table THEN GetError
  ELSE IF key \notin DOMAIN rows THEN GetNull
  ELSE LET parsed == JsonParse(rows[key]) IN
       IF parsed.ok THEN [status |-> "value", val |-> parsed.val] ELSE GetError

\* The keys and values the requests set.
SetKeys == {"tasks", OtherKey}
StoreValues == {JArr(<<JNum(7)>>), JStr(<<QT, NL>>), JNull}

\* db: the values requests may set; the table exists; its rows; initDb's
\* position; the dbSet calls in flight; the last dbGet's key and result;
\* and, as history, whether initDb has completed, whether it has completed
\* after a set, the keys ever set and the value of the last set completed
\* on each key.
NewDb(values) ==
  [values |-> values, table |-> FALSE, rows |-> <<>>, initPc |-> "idle",
   calls |-> {}, got |-> <<>>, inited |-> FALSE, reinit |-> FALSE,
   written |-> {}, last |-> [k \in SetKeys |-> <<>>]]

InitStore ==
  /\ JobsIdle
  /\ call = NoUnit
  /\ db = NewDb(StoreValues)

\* initDb: CREATE TABLE IF NOT EXISTS
InitDbCreate ==
  /\ db.initPc = "idle"
  /\ db' = [db EXCEPT !.table = TRUE, !.initPc = "created"]
  /\ UNCHANGED <<jobs, call>>

\* initDb: the INSERT of the defaults
InitDbInsert ==
  /\ db.initPc = "created"
  /\ db' = [db EXCEPT !.rows = InsertDefaults(db.rows), !.initPc = "idle",
                      !.inited = TRUE, !.reinit = @ \/ db.written # {}]
  /\ UNCHANGED <<jobs, call>>

\* dbSet(key, value) is called: the value is serialized and the query sent.
DbSetCall(key, value) ==
  /\ Cardinality(db.calls) < Cardinality(Slots)
  /\ [key |-> key, value |-> value, text |-> DbSetText(value)] \notin db.calls
  /\ db' = [db EXCEPT !.calls = @ \cup {[key |-> key, value |-> value,
                                         text |-> DbSetText(value)]}]
  /\ UNCHANGED <<jobs, call>>

\* The query of a dbSet call runs and the call returns; without the table it
\* fails and changes nothing.
DbSetDone(c) ==
  /\ c \in db.calls
  /\ db' = IF db.table
             THEN [db EXCEPT !.calls = @ \ {c},
                             !.rows = Upsert(db.rows, c.key, c.text),
                             !.written = @ \cup {c.key},
                             !.last[c.key] = <<c.value>>]
             ELSE [db EXCEPT !.calls = @ \ {c}]
  /\ UNCHANGED <<jobs, call>>

\* dbGet(key)
DbGet(key) ==
  /\ db' = [db EXCEPT !.got = <<[key |-> key,
                                 result |-> DbGetResult(db.table, db.rows, key)]>>]
  /\ UNCHANGED <<jobs, call>>

NextStore ==
  \/ InitDbCreate
  \/ InitDbInsert
  \/ \E key \in SetKeys, value \in db.values : DbSetCall(key, value)
  \/ \E c \in db.calls : DbSetDone(c)
  \/ \E key \in KnownKeys \cup {OtherKey} : DbGet(key)

SpecStore == InitStore /\ [][NextStore]_vars

\* One key, set to one value out of all the JSON values tried, and read back.
InitRoundTrip ==
  /\ JobsIdle
  /\ call = NoUnit
  /\ \E v \in JsonValues : db = NewDb({v})

NextRoundTrip ==
  \/ InitDbCreate
  \/ InitDbInsert
  \/ \E value \in db.values : DbSetCall("tasks", value)
  \/ \E c \in db.calls : DbSetDone(c)
  \/ DbGet("tasks")

SpecRoundTrip == InitRoundTrip /\ [][NextRoundTrip]_vars

\* ------------------------------------------------ the urgency label alone
\* The instant, in hours, of local midnight of a day: new Date(dueDate +
\* 'T00:00:00') and today.setHours(0,0,0,0).  From day changeDay on the local
\* clock is shifted by shift hours (daylight saving begins or ends).
Midnight(day, changeDay, shift) ==
  HoursPerDay * day - (IF day >= changeDay THEN shift ELSE 0)

\* A variant that cuts the quotient instead of rounding it.
DayDiffFloor(dueAt, todayAt) == (dueAt - todayAt) \div HoursPerDay

\* Math.round((due - today) / 86400000): the nearest integer, halves up.
DayDiff(dueAt, todayAt) ==
  (2 * (dueAt - todayAt) + HoursPerDay) \div (2 * HoursPerDay)

\* Math.abs
Abs(n) == IF n < 0 THEN 0 - n ELSE n

\* The label of a task in the due check's list: its words and its number.
UrgencyLabel(diff) ==
  IF diff < 0 THEN [text |-> "OVERDUE by Nd", n |-> Abs(diff)]
  ELSE IF diff = 0 THEN [text |-> "DUE TODAY", n |-> 0]
  ELSE [text |-> "due in Nd", n |-> diff]

\* Today, as a day number, in the label's specification.
LabelToday == Saturday

InitLabel ==
  /\ JobsIdle
  /\ db = NoUnit
  /\ \E d \in (LabelToday - MaxDays)..(LabelToday + MaxDays),
        c \in (LabelToday - MaxDays)..(LabelToday + MaxDays + 1),
        h \in {-1, 0, 1} :
       call = [fn |-> "label", due |-> d, today |-> LabelToday,
               changeDay |-> c, shift |-> h, out |-> <<>>]

\* taskList's map callback, for one task
ComputeLabel ==
  /\ call.out = <<>>
  /\ call' = [call EXCEPT !.out =
       <<UrgencyLabel(DayDiff(Midnight(call.due, call.changeDay, call.shift),
                              Midnight(call.today, call.changeDay, call.shift)))>>]
  /\ UNCHANGED <<jobs, db>>

NextLabel == ComputeLabel

SpecLabel == InitLabel /\ [][NextLabel]_vars

\* --------------------------------------------- the jobs, every call answered
\* The four timers fire over a store with a task due or with nothing in it,
\* with or without mail credentials.  Every call a handler awaits (a store
\* query, the oracle fetch, the mail transport) eventually returns or throws,
\* and a callback that has returned is eventually forgotten.
InitLive ==
  /\ Init
  /\ <<store.tasks, store.goals>> \in { <<<<>>, <<>>>>, <<<<TaskUrgent>>, <<>>>> }

\* The await firing r is suspended at completes: it returns or it throws.
Completes(r) ==
  \/ TasksRead(r)
  \/ LogRead(r)
  \/ CompletionRead(r)
  \/ GoalsRead(r)
  \/ MemoryRead(r)
  \/ \E raw \in RawReplies : OracleReplies(r, raw)
  \/ OracleFails(r)
  \/ StoreFails(r)
  \/ MailSent(r)
  \/ MailFails(r)
  \/ EmailLogRead(r)
  \/ EmailLogWritten(r)

NextLive ==
  \/ \E r \in Firings : Forget(r)
  \/ \E kind \in JobKinds : Fire(kind)
  \/ \E r \in Firings : Completes(r)

SpecLive ==
  /\ InitLive
  /\ [][NextLive]_vars
  /\ WF_vars(\E r \in Firings : Completes(r))
  /\ WF_vars(\E r \in Firings : Forget(r))

\* ------------------------------------------------- the gate over any log
\* Subjects a log entry may carry: those the jobs write, and one that spells
\* a tag in lower case.
GateTypes ==
  { SubjMorning, SubjFocus, DueSubject(<<>>),
    DueSubject(<<"R", "e", "n", "t", " ", "D", "u", "e">>),
    DueSubject(<<"F", "o", "c", "u", "s", " ", "n", "o", "w">>),
    <<"d", "u", "e", " ", "f", "o", "c", "u", "s">> }

\* Entries sent from a due-check cool-down before the observation starts on.
GateEntries ==
  [type : GateTypes, sentAt : (StartTime - DueCoolDown)..StartTime,
   html : {EmailTemplate("Tasks Due Soon", Body)}]

\* Logs of at most two entries.
GateLogs ==
  {<<>>} \cup {<<e>> : e \in GateEntries}
         \cup {<<e1, e2>> : e1 \in GateEntries, e2 \in GateEntries}

\* The due check and the focus reminder fire, one firing after another has
\* returned, over a task that is due and a log of any content.
InitGate ==
  /\ store \in Table([tasks : {<<TaskUrgent>>}, goals : {<<>>}, notification_log : GateLogs])
  /\ now = StartTime
  /\ creds = TRUE
  /\ schedule = DefaultSchedule
  /\ timers = JobKinds
  /\ running = TRUE
  /\ firings = EmptyBag
  /\ started = 0
  /\ db = NoUnit
  /\ call = NoUnit

FireGated(kind) ==
  /\ firings = EmptyBag
  /\ Fire(kind)

NextGate ==
  \/ Tick
  \/ \E r \in Firings : Forget(r)
  \/ FireGated("due")
  \/ FireGated("focus")
  \/ \E r \in Firings : TasksRead(r)
  \/ \E r \in Firings : LogRead(r)
  \/ \E r \in Firings : StoreFails(r)

SpecGate == InitGate /\ [][NextGate]_vars

\* ------------------------------------------ the due check and its horizon
\* The day the observation starts on.
StartDay == StartTime \div TicksPerDay

\* Tasks finished or not, with no due date or one from MaxDays days before
\* the first day to a day past the horizon of the last.
HorizonTasks ==
  [done : BOOLEAN, priority : {"high"},
   dueDate : {<<>>} \cup {<<d>> : d \in (StartDay - MaxDays)..(StartDay + MaxDays + 1)}]

\* The due check fires, one firing after another has returned, over no
\* task, one task, or a finished task beside another, and a log that is
\* empty or holds an alert one tick old.
InitHorizon ==
  /\ store \in Table([tasks : {<<>>} \cup {<<t>> : t \in HorizonTasks}
                          \cup {<<TaskDone, t>> : t \in HorizonTasks},
                 goals : {<<>>},
                 notification_log :
                   { <<>>,
                     <<[type |-> DueSubject(<<"R", "e", "n", "t", " ", "D", "u", "e">>),
                        sentAt |-> StartTime - 1,
                        html |-> EmailTemplate("Tasks Due Soon", Body)]>> }])
  /\ now = StartTime
  /\ creds = TRUE
  /\ schedule = DefaultSchedule
  /\ timers = JobKinds
  /\ running = TRUE
  /\ firings = EmptyBag
  /\ started = 0
  /\ db = NoUnit
  /\ call = NoUnit

NextHorizon ==
  \/ Tick
  \/ \E r \in Firings : Forget(r)
  \/ FireGated("due")
  \/ \E r \in Firings : TasksRead(r)
  \/ \E r \in Firings : LogRead(r)
  \/ \E r \in Firings : MemoryRead(r)
  \/ \E r \in Firings, raw \in RawReplies : OracleReplies(r, raw)
  \/ \E r \in Firings : OracleFails(r)
  \/ \E r \in Firings : StoreFails(r)
  \/ \E r \in Firings : MailSent(r)
  \/ \E r \in Firings : MailFails(r)
  \/ \E r \in Firings : EmailLogRead(r)
  \/ \E r \in Firings : EmailLogWritten(r)

SpecHorizon == InitHorizon /\ [][NextHorizon]_vars

\* ------------------------------------- the focus reminder through the week
TaskMedium == [done |-> FALSE, priority |-> "medium", dueDate |-> <<>>]

\* 10:00 on each day of a week, Sunday to Saturday.
WeekTimes == {d * TicksPerDay + 5 : d \in 0..Saturday}

\* The focus reminder fires, one firing after another has returned, at ten
\* in the morning of any day of the week, over no task, open tasks of high,
\* medium or low priority, or finished ones.
InitWeek ==
  /\ store \in Table([tasks : TaskLists \cup {<<TaskMedium>>, <<TaskLow, TaskMedium>>},
                 goals : {<<>>}, notification_log : {<<>>}])
  /\ now \in WeekTimes
  /\ creds = TRUE
  /\ schedule = DefaultSchedule
  /\ timers = JobKinds
  /\ running = TRUE
  /\ firings = EmptyBag
  /\ started = 0
  /\ db = NoUnit
  /\ call = NoUnit

NextWeek ==
  \/ \E r \in Firings : Forget(r)
  \/ FireGated("focus")
  \/ \E r \in Firings : TasksRead(r)
  \/ \E r \in Firings : LogRead(r)
  \/ \E r \in Firings : MemoryRead(r)
  \/ \E r \in Firings, raw \in RawReplies : OracleReplies(r, raw)
  \/ \E r \in Firings : OracleFails(r)
  \/ \E r \in Firings : StoreFails(r)
  \/ \E r \in Firings : MailSent(r)
  \/ \E r \in Firings : MailFails(r)
  \/ \E r \in Firings : EmailLogRead(r)
  \/ \E r \in Firings : EmailLogWritten(r)

SpecWeek == InitWeek /\ [][NextWeek]_vars

\* ------------------------------------------------ the completion log's API
\* Lists a client may post as req.body.log: n entries, numbered from base + 1.
Entries(base, n) == [k \in 1..n |-> base + k]

\* No list, a short one, and lists about the cap, of two contents.
PostedLogs ==
  {Entries(base, n) : base \in {0, 1000},
                      n \in {0, 1, CompletionCap - 1, CompletionCap,
                             CompletionCap + 1, CompletionCap + 2}}

\* POST /api/completion-log up to its await: req.body.log || [] is sliced
\* and dbSet is called.
PostCompletionLog(log) ==
  /\ Ready
  /\ started < MaxFirings
  /\ Free
  /\ firings' = Put([Ev(NewFiring("postLog", "postLog", now), "post") EXCEPT
                       !.pc = "setCompletion",
                       !.body = log,
                       !.pending = LastN(log, CompletionCap)])
  /\ started' = started + 1
  /\ UNCHANGED <<store, now, creds, schedule, timers, running>>
  /\ UNCHANGED units

\* The write takes effect; the handler answers { ok: true }.
CompletionLogWritten(r) ==
  /\ Active(r, "setCompletion")
  /\ store' = [store EXCEPT !.completion_log = SetValue(@, r.pending)]
  /\ Step(r, [Finish(Ev(r, "write"), "Stored") EXCEPT !.response = "ok"])

NextCompletion ==
  \/ \E r \in Firings : Forget(r)
  \/ \E log \in PostedLogs : PostCompletionLog(log)
  \/ \E r \in Firings : CompletionLogWritten(r)

SpecCompletion == Init /\ [][NextCompletion]_vars

\* ------------------------------------------------------ the context digest
\* completionLog.filter(l => new Date(l.completedAt) > sixMonthsAgo), with
\* completedAt and t in ticks.
RecentHistory(history, t) ==
  SelectSeq(history, LAMBDA l : l.completedAt > t - HalfYearDays * TicksPerDay)

\* The number of lines "- ..." in the lists a handler puts in its message to
\* the oracle, built from what it read: open tasks and open goals for the
\* morning briefing and the trigger; the urgent tasks for the due check; the
\* first five open tasks above low priority for the focus reminder; open
\* tasks, goals and the completions of the last six months for the weekly
\* suggestions.
DigestLines(r, t) ==
  CASE r.kind \in {"morning", "trigger"} ->
         Len(OpenTasks(r.seenTasks)) + Len(OpenGoals(r.seenGoals))
    [] r.kind = "due" -> Len(UrgentTasks(r.seenTasks, t \div TicksPerDay))
    [] r.kind = "focus" -> Len(FirstN(FocusTasks(r.seenTasks), FocusDigestCap))
    [] r.kind = "weekly" ->
         Len(OpenTasks(r.seenTasks)) + Len(RecentHistory(r.seenHistory, t))
           + Len(OpenGoals(r.seenGoals))

\* n open tasks of high priority, overdue.
ManyTasks(n) == [k \in 1..n |-> TaskUrgent]

\* Stores of no task, and of five, eight and nine tasks; of no goal or one;
\* of no completion, or one of a year ago and one of the last two hours.
\* The jobs fire, one after another has returned, on a Monday at ten.
InitDigest ==
  /\ store \in {[WithDefaults(c) EXCEPT !.completion_log = h] :
                  c \in [tasks : {ManyTasks(n) : n \in {0, 5, 8, 9}},
                         goals : {<<>>, <<GoalOpen>>},
                         notification_log : {<<>>}],
                  h \in {<<>>,
                         <<[completedAt |-> TicksPerDay + 5 - 2 * HalfYearDays * TicksPerDay],
                           [completedAt |-> TicksPerDay + 4]>>}}
  /\ now = TicksPerDay + 5
  /\ creds = TRUE
  /\ schedule = DefaultSchedule
  /\ timers = JobKinds
  /\ running = TRUE
  /\ firings = EmptyBag
  /\ started = 0
  /\ db = NoUnit
  /\ call = NoUnit

NextDigest ==
  \/ \E r \in Firings : Forget(r)
  \/ \E kind \in JobKinds : FireGated(kind)
  \/ firings = EmptyBag /\ Trigger("morning")
  \/ \E r \in Firings : TasksRead(r)
  \/ \E r \in Firings : LogRead(r)
  \/ \E r \in Firings : CompletionRead(r)
  \/ \E r \in Firings : GoalsRead(r)
  \/ \E r \in Firings : MemoryRead(r)
  \/ \E r \in Firings, raw \in RawReplies : OracleReplies(r, raw)
  \/ \E r \in Firings : OracleFails(r)
  \/ \E r \in Firings : StoreFails(r)
  \/ \E r \in Firings : MailSent(r)
  \/ \E r \in Firings : MailFails(r)
  \/ \E r \in Firings : EmailLogRead(r)
  \/ \E r \in Firings : EmailLogWritten(r)

SpecDigest == InitDigest /\ [][NextDigest]_vars

\* ------------------------------------------------- the voice 'add' command
\* req.query.task of the webhook: nothing, or the text of a task.
VoiceTexts == {<<>>, <<"b", "u", "y">>}

\* What the oracle may answer to "Categorize this task": an object with a
\* priority, null, or text that is not JSON.
VoiceReplies ==
  [json : {"object"}, priority : {"high", "low"}]
    \cup { [json |-> "null", priority |-> "none"],
           [json |-> "garbage", priority |-> "none"] }

\* The task the 'add' command builds from the parsed answer.
VoiceTask(parsed) == [done |-> FALSE, priority |-> parsed.priority, dueDate |-> <<>>]

\* Lists a client may post as req.body.tasks.
PostedTasks == {<<>>, <<TaskLow>>, <<TaskDone, TaskLow>>}

\* GET or POST /webhook/routine/add: buildRoutineResponse calls
\* dbGet('tasks').
VoiceAdd(extra) ==
  /\ Ready
  /\ started < MaxFirings
  /\ Free
  /\ firings' = Put([Ev(NewFiring("voice", "add", now), "request") EXCEPT
                       !.body = extra])
  /\ started' = started + 1
  /\ UNCHANGED <<store, now, creds, schedule, timers, running>>
  /\ UNCHANGED units

\* After dbGet('goals'): without a text the command answers that it got
\* none; with one it asks the oracle.
VoiceGoalsRead(r) ==
  /\ Active(r, "getGoals")
  /\ LET r1 == [Ev(r, "read") EXCEPT !.seenGoals = store.goals] IN
     Step(r, IF r.body = <<>>
               THEN [Finish(r1, "NoText") EXCEPT !.response = "said"]
               ELSE CallClaude(r1))
  /\ UNCHANGED store

\* The oracle has answered: the answer is parsed, the task is appended to
\* the list read when the command began, and dbSet('tasks') is called.
VoiceOracleReplies(r, raw) ==
  /\ Active(r, "fetch")
  /\ Step(r, IF ParseJSONThrows(raw) \/ FieldReadThrows(raw)
               THEN [Catch(r, "parseErr") EXCEPT !.response = "sorry"]
               ELSE [Ev(Ev(r, "reply"), "parse") EXCEPT
                       !.pc = "setTasks",
                       !.pending = Append(r.seenTasks, VoiceTask(raw))])
  /\ UNCHANGED store

\* POST /api/tasks up to its await: dbSet('tasks', req.body.tasks || []).
PostTasks(tasks) ==
  /\ Ready
  /\ started < MaxFirings
  /\ Free
  /\ firings' = Put([Ev(NewFiring("postTasks", "postTasks", now), "post") EXCEPT
                       !.pc = "setTasks", !.body = tasks, !.pending = tasks])
  /\ started' = started + 1
  /\ UNCHANGED <<store, now, creds, schedule, timers, running>>
  /\ UNCHANGED units

\* A write of the task list takes effect and its handler answers.
TasksWritten(r) ==
  /\ Active(r, "setTasks")
  /\ store' = [store EXCEPT !.tasks = SetValue(@, r.pending)]
  /\ Step(r, [Finish(Ev(r, "write"), IF r.kind = "voice" THEN "Added" ELSE "Stored")
                EXCEPT !.response = IF r.kind = "voice" THEN "said" ELSE "ok"])

InitVoice ==
  /\ store \in Table([tasks : {<<>>, <<TaskUrgent>>}, goals : {<<>>},
                 notification_log : {<<>>}])
  /\ now = StartTime
  /\ creds = TRUE
  /\ schedule = DefaultSchedule
  /\ timers = JobKinds
  /\ running = TRUE
  /\ firings = EmptyBag
  /\ started = 0
  /\ db = NoUnit
  /\ call = NoUnit

NextVoice ==
  \/ \E r \in Firings : Forget(r)
  \/ \E extra \in VoiceTexts : VoiceAdd(extra)
  \/ \E tasks \in PostedTasks : PostTasks(tasks)
  \/ \E r \in Firings : TasksRead(r)
  \/ \E r \in Firings : VoiceGoalsRead(r)
  \/ \E r \in Firings : MemoryRead(r)
  \/ \E r \in Firings, raw \in VoiceReplies : VoiceOracleReplies(r, raw)
  \/ \E r \in Firings : OracleFails(r)
  \/ \E r \in Firings : StoreFails(r)
  \/ \E r \in Firings : TasksWritten(r)

SpecVoice == InitVoice /\ [][NextVoice]_vars

\* ----------------------------------------------------------- history
Has(r, e) == \E k \in 1..Len(r.trace) : r.trace[k] = e
Count(r, e) == Cardinality({k \in 1..Len(r.trace) : r.trace[k] = e})
\* The position of the first e in the firing's trace, 0 when there is none.
Pos(r, e) ==
  IF Has(r, e)
    THEN CHOOSE k \in 1..Len(r.trace) :
           r.trace[k] = e /\ \A j \in 1..(k - 1) : r.trace[j] # e
    ELSE 0
Log == store.notification_log
\* The jobs that ask the oracle whether to notify.
JudgmentKinds == {"due", "focus"}

\* C1: the notification log never holds two entries carrying the same
\* throttled kind's tag ('Due', 'Focus') whose sentAt are closer together
\* than that kind's cool-down.
C1_CoolDownKept ==
  \A k, l \in 1..Len(Log) :
    k < l =>
      /\ (Includes(Log[k].type, TagDue) /\ Includes(Log[l].type, TagDue)
            => Log[l].sentAt - Log[k].sentAt >= DueCoolDown)
      /\ (Includes(Log[k].type, TagFocus) /\ Includes(Log[l].type, TagFocus)
            => Log[l].sentAt - Log[k].sentAt >= FocusCoolDown)

\* C3: a judgment job calls the Notifier only when the decision's
\* shouldNotify / shouldSend is strictly the boolean true.
C3_StrictlyTrue ==
  \A r \in Firings :
    r.kind \in JudgmentKinds /\ Has(r, "notify")
      => r.flag = JsTrue

\* C2: when the urgency job fires twice inside one 4-hour window, each
\* firing after the one before returned, with the same task due and the
\* oracle answering shouldNotify: true both times, one delivery is made and
\* one entry is logged: while every firing so far began less than a
\* cool-down after the first, the log holds at most one entry.
C2_OneDeliveryPerWindow ==
  now - StartTime < DueCoolDown => Len(Log) <= 1

\* C4 as stated: in a judgment job that delivers, the gate is consulted
\* after the positive judgment and before the Notifier is called.
C4_GateAfterJudgment ==
  \A r \in Firings :
    r.kind \in JudgmentKinds /\ Has(r, "notify")
      => /\ Pos(r, "judge") < Pos(r, "gate")
         /\ Pos(r, "gate") < Pos(r, "notify")

\* C4: in every firing of a judgment job the steps come in the order gate,
\* oracle call, parse, judgment, delivery: the oracle is asked only after
\* the gate found no recent entry, a blocked firing asks nothing, a
\* negative judgment ends the firing with no delivery, and a delivery
\* follows a positive judgment with no further look at the log.
C4_GateBeforeOracle ==
  \A r \in Firings :
    r.kind \in JudgmentKinds =>
      /\ Count(r, "gate") <= 1
      /\ Has(r, "ask") => Has(r, "gate") /\ Pos(r, "gate") < Pos(r, "ask")
      /\ r.outcome = "Suppressed" => Has(r, "gate") /\ ~Has(r, "ask")
      /\ Has(r, "judge") =>
           /\ Pos(r, "ask") < Pos(r, "oracleOk")
           /\ Pos(r, "oracleOk") < Pos(r, "parse")
           /\ Pos(r, "parse") < Pos(r, "judge")
      /\ Has(r, "judge") /\ ~Truthy(r.flag) =>
           r.pc = "done" /\ r.outcome = "Declined" /\ ~Has(r, "notify")
      /\ Has(r, "notify") =>
           /\ Truthy(r.flag)
           /\ Pos(r, "notify") = Pos(r, "judge") + 1

\* A due check has passed the gate, asked the oracle and called the Notifier.
C4_Witness ==
  \E r \in Firings :
    /\ r.kind = "due"
    /\ Has(r, "gate")
    /\ Has(r, "notify")

\* C5: with no open task and no open goal, a digest started by its timer or
\* by the manual trigger asks the oracle nothing, delivers nothing and
\* leaves the store as it was.
C5_NothingToReport ==
  \A r \in Firings :
    /\ r.kind \in {"morning", "trigger"}
    /\ r.response # "rejected"
    /\ OpenTasks(store.tasks) = <<>>
    /\ OpenGoals(store.goals) = <<>>
    => /\ ~Has(r, "ask")
       /\ ~Has(r, "notify")
       /\ Log = <<>>

\* One open task and no open goal are stored.
OneTaskNoGoals ==
  Len(OpenTasks(store.tasks)) = 1 /\ OpenGoals(store.goals) = <<>>

C7_EveryKindAccepted ==
  \A r \in Firings :
    r.kind = "trigger" /\ r.job \in JobKinds
      => r.response = "accepted"

\* C7: a trigger request is accepted exactly when it names the morning
\* briefing; the accepted body consults no gate and calls the Notifier once
\* the oracle has answered; a request naming the due check, the focus
\* reminder, the weekly suggestions or anything else is answered as
\* rejected and runs nothing.
C7_OnlyMorningAccepted ==
  \A r \in Firings :
    r.kind = "trigger" =>
      /\ r.response = "accepted" <=> r.job = "morning"
      /\ r.job # "morning" =>
           r.response = "rejected" /\ r.pc = "done" /\ r.trace = <<"respond">>
      /\ r.job = "morning" =>
           /\ ~Has(r, "gate")
           /\ Has(r, "oracleOk") => Has(r, "notify")

\* A trigger request naming the due check was answered as rejected.
C7_Witness ==
  \E r \in Firings :
    /\ r.kind = "trigger"
    /\ r.job = "due"
    /\ r.response = "rejected"

\* C8: an accepted trigger request is answered before the body's first
\* store read, oracle call or delivery, and the answer is 'accepted'
\* whatever the body's outcome.
C8_AnswerBeforeBody ==
  \A r \in Firings :
    r.kind = "trigger" /\ r.job = "morning" =>
      /\ r.response = "accepted"
      /\ Len(r.trace) >= 1
      /\ r.trace[1] = "respond"
      /\ Count(r, "respond") = 1

\* An accepted trigger whose body then failed.
C8_Witness ==
  \E r \in Firings :
    /\ r.kind = "trigger"
    /\ r.response = "accepted"
    /\ r.outcome = "Failed"

\* Firing r ends in this step on a rejected await, becoming r2.
FailStep(r, r2) ==
  /\ r.pc # "done"
  /\ r2.pc = "done"
  /\ r2.outcome \in {"Failed", "Crashed"}
  /\ firings' = Replace(r, r2)

\* C9: a failure in any step of any firing is contained in that firing: the
\* process stays alive, every timer stays registered, the failing step
\* changes nothing but the firing's own record, and a failed firing has
\* written nothing to the store.
C9_FailureContained ==
  /\ [](/\ running
        /\ timers = JobKinds
        /\ \A r \in Firings :
             r.outcome \notin {"none", "Delivered"} => ~Has(r, "write"))
  /\ [][\A r \in Firings : \A r2 \in BagToSet(firings') :
          FailStep(r, r2) =>
            /\ r2.outcome = "Failed"
            /\ UNCHANGED <<store, now, creds, schedule, timers, running, started>>]_vars

\* A firing has failed while another firing can still start.
C9_Witness ==
  \E r \in Firings :
    /\ r.outcome = "Failed"
    /\ running
    /\ started < MaxFirings

\* The firing's oracle call failed: in callClaude's store read or its fetch.
AskFailed(r) == Has(r, "ask") /\ r.pc = "done" /\ ~Has(r, "oracleOk")

\* C10: a firing calls the oracle at most once; when the call fails the
\* firing ends Failed with no second call, no delivery and no log entry.
C10_OneOracleCall ==
  \A r \in Firings :
    /\ Count(r, "ask") <= 1
    /\ Count(r, "oracleOk") + Count(r, "oracleErr") <= 1
    /\ Has(r, "oracleErr") => AskFailed(r)
    /\ AskFailed(r) =>
         /\ r.outcome = "Failed"
         /\ ~Has(r, "notify")
         /\ ~Has(r, "send")
         /\ ~Has(r, "write")

\* A firing's fetch to the oracle failed.
C10_Witness ==
  \E r \in Firings : Has(r, "oracleErr")

\* C11: without mail credentials the Notifier returns normally: the firing
\* that called it ends there, not Failed, with no transport call and no
\* store read or write after the call, and the notification log stays as it
\* was.
C11_UnconfiguredNoOp ==
  ~creds =>
    /\ Log = <<>>
    /\ \A r \in Firings :
         /\ ~Has(r, "send") /\ ~Has(r, "mailErr") /\ ~Has(r, "write")
         /\ r.pc \notin {"sendMail", "emailGetLog", "emailSetLog"}
         /\ Has(r, "notify") =>
              /\ r.pc = "done"
              /\ r.outcome = "Unconfigured"
              /\ r.trace[Len(r.trace)] = "notify"

\* A firing called the Notifier without credentials and has returned.
C11_Witness ==
  \E r \in Firings : ~creds /\ r.outcome = "Unconfigured"

\* Firing r's log write takes effect in this step.
WriteStep(r) ==
  /\ r.pc = "emailSetLog"
  /\ \E r2 \in BagToSet(firings') :
       r2.outcome = "Delivered" /\ firings' = Replace(r, r2)

\* C12: the stored notification log never has more than 50 entries, however
\* deliveries interleave; the log changes only when a delivery's write takes
\* effect, and a delivery whose read-to-write was not interleaved (the log
\* is still the one it read) leaves the last 50 entries of that log followed
\* by the new entry {type: subject, sentAt: the time at the push, html:
\* body}, the new entry last.
C12_LogCapped ==
  /\ [](Len(Log) <= LogCap)
  /\ [][Log' # Log => \E r \in Firings : WriteStep(r)]_vars
  /\ [][\A r \in Firings :
          WriteStep(r) =>
            LET e == r.pending[Len(r.pending)]
                log2 == store'.notification_log IN
            /\ e.type = r.subject /\ e.html = r.html /\ e.sentAt <= now
            /\ Log = SubSeq(r.pending, 1, Len(r.pending) - 1) =>
                 /\ log2 = LastN(Append(Log, e), LogCap)
                 /\ log2[Len(log2)] = e]_vars

\* The log is full and its two newest entries were written in this
\* behaviour: an older entry has been dropped for a newer one.
C12_Witness ==
  /\ Len(Log) = LogCap
  /\ Log[LogCap].sentAt >= StartTime
  /\ Log[LogCap - 1].sentAt >= StartTime

\* C13: for every JSON payload, parseJSON of the payload between an opening
\* fence line (three backticks, a language word or none, a newline) and a
\* closing fence, with white space around, returns what parseJSON of the
\* bare payload returns: the value the payload denotes.
C13_FencesTransparent ==
  call.plain # <<>> /\ call.fenced # <<>> =>
    /\ call.plain[1] = [ok |-> TRUE, val |-> call.value]
    /\ call.fenced[1] = call.plain[1]

\* Both parses are done for a payload that is a string of three backticks.
C13_Witness ==
  /\ call.plain # <<>>
  /\ call.fenced # <<>>
  /\ call.value = JStr(Fence)
  /\ call.text # call.payload

\* Firing r learns in this step that the oracle's reply is no JSON.
MalformedStep(r) ==
  /\ ~Has(r, "parseErr")
  /\ \E r2 \in BagToSet(firings') :
       Has(r2, "parseErr") /\ firings' = Replace(r, r2)

\* C14: when the oracle's reply to the due check or the focus reminder is
\* not valid JSON, the firing ends Failed: the Notifier is not called,
\* nothing is sent or logged, the step leaves the store as it was and the
\* process keeps running with its timers.
C14_MalformedContained ==
  /\ [](\A r \in Firings :
          Has(r, "parseErr") =>
            /\ r.kind \in JudgmentKinds
            /\ r.pc = "done" /\ r.outcome = "Failed"
            /\ r.trace[Len(r.trace)] = "parseErr"
            /\ ~Has(r, "notify") /\ ~Has(r, "send") /\ ~Has(r, "write")
            /\ running /\ timers = JobKinds)
  /\ [][\A r \in Firings :
          MalformedStep(r) => UNCHANGED <<store, timers, running>>]_vars

\* A focus reminder got a reply that is no JSON.
C14_Witness ==
  \E r \in Firings : r.kind = "focus" /\ Has(r, "parseErr")

\* The default the spec documents for a key: "" for memory, [] for the lists.
DocumentedDefault(k) == IF k = "memory" THEN JStr(<<>>) ELSE JArr(<<>>)

\* C15: once initDb has run, dbGet on a known key that was never set returns
\* the key's default, [] for the lists and "" for memory: not null, no error.
C15_DefaultsAfterInit ==
  db.inited =>
    \A k \in KnownKeys \ db.written :
      DbGetResult(db.table, db.rows, k) =
        [status |-> "value", val |-> DocumentedDefault(k)]

\* After initDb, dbGet('memory') has returned a value and memory was never set.
C15_Witness ==
  /\ db.inited
  /\ db.got # <<>>
  /\ db.got[1].key = "memory"
  /\ db.got[1].result.status = "value"

\* C16: after dbSet(k, v) has completed, and until another dbSet on k
\* completes, dbGet(k) returns a value equal to v, for every JSON value v.
C16_RoundTrip ==
  \A k \in SetKeys :
    db.last[k] # <<>> =>
      DbGetResult(db.table, db.rows, k) = [status |-> "value", val |-> db.last[k][1]]

\* dbGet has returned the string just set, one with a quote in it.
C16_Witness ==
  /\ db.last["tasks"] # <<>>
  /\ db.got # <<>>
  /\ db.got[1].result = [status |-> "value", val |-> db.last["tasks"][1]]
  /\ db.last["tasks"][1].t = "str"
  /\ \E i \in 1..Len(db.last["tasks"][1].s) : db.last["tasks"][1].s[i] = QT

\* dbSet call c completes in this step.
SetDoneStep(c) == db.table /\ db'.calls = db.calls \ {c}

\* C17: a completing dbSet(k, v) makes v's text the whole value of k's row,
\* inserting the row if there was none, and leaves every other row as it
\* was; however the calls interleave, the row of k holds the value of the
\* dbSet on k that completed last.
C17_UpsertLastWins ==
  /\ [](\A k \in SetKeys :
          db.last[k] # <<>> => k \in DOMAIN db.rows /\ db.rows[k] = Stringify(db.last[k][1]))
  /\ [][\A c \in db.calls :
          SetDoneStep(c) =>
            /\ DOMAIN db'.rows = DOMAIN db.rows \cup {c.key}
            /\ db'.rows[c.key] = Stringify(c.value)
            /\ \A k \in DOMAIN db.rows \ {c.key} : db'.rows[k] = db.rows[k]]_vars

\* A dbSet on tasks has completed while another dbSet on tasks, with another
\* value, is still in flight.
C17_Witness ==
  /\ db.last["tasks"] # <<>>
  /\ \E c \in db.calls : c.key = "tasks" /\ c.value # db.last["tasks"][1]

\* A query of initDb runs in this step.
InitDbStep == db'.initPc # db.initPc

\* C18: initDb destroys nothing and is idempotent: each of its queries leaves
\* every row present with the value it had, whatever was set before; once
\* initDb has completed, another run changes no row; and inserting the
\* defaults twice gives what inserting them once gives.
C18_InitIdempotent ==
  /\ [](InsertDefaults(InsertDefaults(db.rows)) = InsertDefaults(db.rows))
  /\ [][InitDbStep =>
          /\ \A k \in DOMAIN db.rows : k \in DOMAIN db'.rows /\ db'.rows[k] = db.rows[k]
          /\ db.inited => db'.rows = db.rows]_vars

\* initDb has completed again after tasks was set, and tasks is not the default.
C18_Witness ==
  /\ db.reinit
  /\ db.initPc = "idle"
  /\ "tasks" \in db.written
  /\ db.rows["tasks"] # DefaultText("tasks")

\* C19: for an open task due on day d, with today t, the label is 'OVERDUE
\* by Nd' with N = t - d when d < t, 'DUE TODAY' when d = t and 'due in Nd'
\* with N = d - t when d > t, whether or not the clocks change between the
\* two days.
C19_UrgencyLabel ==
  call.out # <<>> =>
    call.out[1] =
      IF call.due < call.today
        THEN [text |-> "OVERDUE by Nd", n |-> call.today - call.due]
      ELSE IF call.due = call.today
        THEN [text |-> "DUE TODAY", n |-> 0]
      ELSE [text |-> "due in Nd", n |-> call.due - call.today]

\* A task due yesterday is labelled, the clocks having changed overnight.
C19_Witness ==
  /\ call.out # <<>>
  /\ call.due = call.today - 1
  /\ call.changeDay = call.today
  /\ call.shift # 0
  /\ call.out[1] = [text |-> "OVERDUE by Nd", n |-> 1]

\* C20: cool-downs are independent per kind: a gate suppresses a firing only
\* on an entry that a delivery of the firing's own kind wrote inside the
\* cool-down, whatever subject the oracle supplied for any entry.  Focus
\* entries carry the focus subject; due entries begin with the due prefix.
C20_GatesIndependent ==
  \A r \in Firings :
    r.outcome = "Suppressed" =>
      /\ r.kind = "focus" =>
           \E k \in 1..Len(Log) :
             Log[k].type = SubjFocus /\ now - Log[k].sentAt < FocusCoolDown
      /\ r.kind = "due" =>
           \E k \in 1..Len(Log) :
             StartsWith(Log[k].type, DuePrefix) /\ now - Log[k].sentAt < DueCoolDown

\* The outcomes the scheduler's state machine names.
NamedOutcomes == {"Suppressed", "Delivered", "Skipped", "Failed"}
\* The outcomes a job callback can return with: the four named ones, a
\* negative judgment, and a Notifier call without mail credentials.
JobOutcomes == NamedOutcomes \cup {"Declined", "Unconfigured"}

\* Firing r is in flight and this step neither leaves it alone nor moves it
\* on: its record is gone with no record that continues its history.
Cancelled(r) ==
  /\ r.pc # "done"
  /\ ~BagIn(r, firings')
  /\ ~\E r2 \in BagToSet(firings') :
        /\ r2.kind = r.kind
        /\ Len(r2.trace) > Len(r.trace)
        /\ SubSeq(r2.trace, 1, Len(r.trace)) = r.trace
        /\ firings' = Replace(r, r2)

\* A firing of the kind is in flight; a firing of the kind has returned.
InFlight(kind) == \E r \in Firings : r.kind = kind /\ r.pc # "done"
Returned(kind) == \E r \in Firings : r.kind = kind /\ r.pc = "done"

\* C21 as stated: a job's firing that has returned has one of the four
\* outcomes Suppressed, Delivered, Skipped(no-data), Failed.
C21_FourOutcomes ==
  \A r \in Firings :
    r.kind \in JobKinds /\ r.pc = "done" => r.outcome \in NamedOutcomes

\* C21: provided every store, oracle and delivery call eventually returns or
\* fails, every started firing of a job eventually returns with exactly one
\* outcome, which is Suppressed, Delivered, Skipped, Failed, Declined (the
\* oracle's judgment was negative) or Unconfigured (the Notifier was called
\* without credentials); a firing in flight has no outcome yet, no step
\* cancels it part-way, and its record is dropped only after it has returned.
C21_RunsToAnOutcome ==
  /\ [](\A r \in Firings :
          /\ r.pc = "done" <=> r.outcome # "none"
          /\ r.pc = "done" => r.outcome \in JobOutcomes)
  /\ [][\A r \in Firings : ~Cancelled(r)]_vars
  /\ \A kind \in JobKinds : InFlight(kind) ~> Returned(kind)

\* A focus reminder has returned after a negative judgment.
C21_Witness ==
  \E r \in Firings : r.kind = "focus" /\ r.outcome = "Declined"

\* The jobs that compose a message and ask for no judgment.
ComposeKinds == {"morning", "weekly"}

\* C22: a morning briefing or a weekly suggestions firing never parses the
\* oracle's reply as a decision and never consults the notification log as
\* a gate; the briefing asks the oracle exactly when it read an open task or
\* an open goal, the suggestions whenever their reads succeeded; and the
\* firing calls the Notifier once when the oracle call succeeded and not at
\* all otherwise, whatever the log holds.
C22_ComposeUngated ==
  \A r \in Firings :
    r.kind \in ComposeKinds =>
      /\ ~Has(r, "gate") /\ ~Has(r, "parse") /\ ~Has(r, "parseErr")
      /\ ~Has(r, "judge")
      /\ r.pc # "getLog"
      /\ r.outcome \notin {"Suppressed", "Declined"}
      /\ Count(r, "notify") = Count(r, "oracleOk")
      /\ Count(r, "notify") <= 1
      /\ r.kind = "morning" /\ Has(r, "ask") =>
           OpenTasks(r.seenTasks) # <<>> \/ OpenGoals(r.seenGoals) # <<>>
      /\ r.outcome = "Skipped" =>
           /\ r.kind = "morning"
           /\ OpenTasks(r.seenTasks) = <<>> /\ OpenGoals(r.seenGoals) = <<>>

\* A morning briefing calls the Notifier while the log holds a briefing
\* delivered within the same tick.
C22_Witness ==
  \E r \in Firings :
    /\ r.kind = "morning"
    /\ Has(r, "notify")
    /\ r.pc # "done"
    /\ \E k \in 1..Len(Log) : Log[k].type = SubjMorning /\ Log[k].sentAt = now

\* The tag occurs in the text: the text is some characters, the tag, and
\* some more characters.
Occurs(tag, text) ==
  \E i \in 0..(Len(text) - Len(tag)) : \A j \in 1..Len(tag) : text[i + j] = tag[j]

\* Firing r passes through its gate in this step and becomes r2.
GateStep(r, r2) ==
  /\ r.pc = "getLog"
  /\ Has(r2, "gate")
  /\ firings' = Replace(r, r2)

\* The tag and the cool-down of a throttled kind.
KindTag(kind) == IF kind = "due" THEN TagDue ELSE TagFocus
KindCoolDown(kind) == IF kind = "due" THEN DueCoolDown ELSE FocusCoolDown

\* C23: the gate of a due check or a focus reminder suppresses the firing
\* if and only if the log holds at least one entry whose type contains the
\* kind's tag and whose age, now - sentAt, is less than the kind's
\* cool-down; otherwise the firing goes on to the oracle.  The answer is a
\* function of the log, the tag, the cool-down and the present moment alone:
\* the same for the first check as for one made after earlier checks.
C23_SlidingWindow ==
  [][\A r \in Firings : \A r2 \in BagToSet(firings') :
       GateStep(r, r2) =>
         LET hit == \E k \in 1..Len(Log) :
                      /\ Occurs(KindTag(r.kind), Log[k].type)
                      /\ now - Log[k].sentAt < KindCoolDown(r.kind)
         IN /\ hit <=> r2.outcome = "Suppressed"
            /\ ~hit <=> Has(r2, "ask")]_vars

\* A second check suppresses on an entry one tick old whose window, were
\* the windows fixed, would have ended.
C23_Witness ==
  \E r \in Firings :
    /\ r.kind = "due"
    /\ r.outcome = "Suppressed"
    /\ started = 2
    /\ now % DueCoolDown = 0
    /\ \A k \in 1..Len(Log) : Occurs(TagDue, Log[k].type) => Log[k].sentAt = now - 1

\* A stored task is open, has a due date, and that date is no later than
\* three days after today.
DueWithinHorizon ==
  \E i \in 1..Len(store.tasks) :
    /\ store.tasks[i].done = FALSE
    /\ store.tasks[i].dueDate # <<>>
    /\ store.tasks[i].dueDate[1] - Today <= 3

\* A due check gets its log in this step and goes on as r2.
DueCheckStep(r, r2) ==
  /\ r.kind = "due"
  /\ r.pc = "getLog"
  /\ r2.pc # "getLog"
  /\ ~Has(r2, "storeErr")
  /\ firings' = Replace(r, r2)

Weekday == (now \div TicksPerDay) % 7 \in 1..5

\* A stored task is open and its priority is not low.
OpenAboveLow ==
  \E i \in 1..Len(store.tasks) :
    store.tasks[i].done = FALSE /\ store.tasks[i].priority # "low"

\* C25: a focus reminder calls the oracle only if today is a weekday and
\* at least one task has done = false and a priority other than low; on
\* Saturday or Sunday, or with no such task, the firing returns with no
\* oracle call, no Notifier call, nothing sent and nothing logged.
C25_WeekdayAndOpenTask ==
  \A r \in Firings :
    r.kind = "focus" =>
      /\ Has(r, "ask") => Weekday /\ OpenAboveLow
      /\ ~Weekday \/ ~OpenAboveLow =>
           /\ ~Has(r, "gate") /\ ~Has(r, "ask") /\ ~Has(r, "notify")
           /\ ~Has(r, "send") /\ ~Has(r, "write")
           /\ r.pc \in {"getTasks", "getLog", "done"}
           /\ r.pc = "done" => r.outcome \in {"Skipped", "Failed"}
           /\ Log = <<>>

\* On a Sunday a focus reminder has returned, skipped, with an open task of
\* medium priority in the store.
C25_Witness ==
  \E r \in Firings :
    /\ r.kind = "focus"
    /\ r.outcome = "Skipped"
    /\ (now \div TicksPerDay) % 7 = 0
    /\ store.tasks = <<TaskMedium>>

\* The log firing r read in its delivery, before it pushed its entry.
LogAsRead(r) == SubSeq(r.pending, 1, Len(r.pending) - 1)

\* Entry e is among the entries of log.
Among(e, log) == \E k \in 1..Len(log) : log[k] = e

\* C26: the Notifier's read of the log, its push and its write-back are
\* three steps, not one.  A delivery writes back the log it read with its
\* own entry pushed, whatever the store holds by then: when another
\* delivery read the same log and wrote first, every entry the store has
\* gained since the read is gone after the write, so of the two new
\* entries the log keeps one and a notification that was sent is missing
\* from the log the gate reads.
C26_LostUpdate ==
  [][\A r \in Firings :
       WriteStep(r) =>
         /\ store'.notification_log = LastN(r.pending, LogCap)
         /\ \A k \in 1..Len(Log) :
              ~Among(Log[k], r.pending) => ~Among(Log[k], store'.notification_log)
         /\ Log # LogAsRead(r) /\ Len(r.pending) <= LogCap =>
              Len(store'.notification_log) = Len(LogAsRead(r)) + 1]_vars

\* Two deliveries read the empty log and the morning briefing has written
\* its entry: the test briefing is about to write back a log that lacks it.
C26_Witness ==
  \E r \in Firings :
    /\ r.pc = "emailSetLog"
    /\ r.subject = SubjTest
    /\ LogAsRead(r) = <<>>
    /\ Len(Log) = 1
    /\ Log[1].type = SubjMorning

\* The keys the jobs read and never write.
ReadOnlyKeys == {"tasks", "goals", "memory", "projects", "notes", "completion_log"}

\* C27: no step of a firing of the four scheduled jobs or of a manual
\* trigger run changes the value stored under tasks, goals, memory,
\* projects, notes or completion_log; the store changes only in a
\* delivery's log write, and there only under notification_log.
C27_JobsWriteOnlyTheLog ==
  /\ [][\A k \in ReadOnlyKeys : store'[k] = store[k]]_vars
  /\ [][store' # store => \E r \in Firings : WriteStep(r)]_vars

\* A scheduled job and a manual trigger run have both delivered, and the
\* log holds their two entries.
C27_Witness ==
  /\ Len(Log) = 2
  /\ \E k, l \in 1..2 : Log[k].type = SubjTest /\ Log[l].type = SubjWeekly
  /\ store.tasks # <<>>

\* Firing r's read of the log in sendEmail completes in this step.
LogReadStep(r, r2) ==
  /\ r.pc = "emailGetLog"
  /\ r2.pc = "emailSetLog"
  /\ firings' = Replace(r, r2)

\* C28: an entry enters the notification log only after the transport has
\* accepted the message.  The Notifier reads and writes the log only after
\* its send returned; a firing whose send failed, or whose Notifier call
\* found no credentials, reads and writes nothing; the entry a delivery
\* pushes carries the subject and the body it sent, onto the log as stored;
\* and the stored log changes only by such a write, to entries the writer
\* read or pushed.  So every entry is of a message that was sent.
C28_LoggedOnlyAfterSend ==
  /\ [](\A r \in Firings :
          /\ r.pc \in {"emailGetLog", "emailSetLog"} \/ Has(r, "write") =>
               /\ Has(r, "send")
               /\ Pos(r, "notify") < Pos(r, "send")
          /\ Has(r, "write") => Pos(r, "send") < Pos(r, "write")
          /\ Has(r, "mailErr") \/ r.outcome = "Unconfigured" =>
               ~Has(r, "send") /\ ~Has(r, "write") /\ r.pc = "done"
          /\ r.pc = "emailSetLog" =>
               LET e == r.pending[Len(r.pending)] IN
               e.type = r.subject /\ e.html = r.html /\ e.sentAt <= now)
  /\ [][\A r \in Firings : \A r2 \in BagToSet(firings') :
          LogReadStep(r, r2) => LogAsRead(r2) = Log]_vars
  /\ [][Log' # Log =>
          \E r \in Firings :
            /\ WriteStep(r)
            /\ Has(r, "send")
            /\ \A k \in 1..Len(store'.notification_log) :
                 Among(store'.notification_log[k], r.pending)]_vars

\* A firing's send failed in the transport and the log is still empty,
\* with the credentials set.
C28_Witness ==
  \E r \in Firings :
    /\ Has(r, "mailErr")
    /\ creds
    /\ Log = <<>>

\* C29: a firing of any of the four jobs, and a manual trigger run, calls
\* the Notifier at most once, sends at most one message and writes the log
\* at most once; the log, empty at the start, never holds more entries than
\* firings have started, nor does a log about to be written.
C29_AtMostOneDelivery ==
  /\ \A r \in Firings :
       /\ Count(r, "notify") <= 1
       /\ Count(r, "send") <= 1
       /\ Count(r, "write") <= 1
       /\ r.pc = "emailSetLog" => Len(r.pending) <= started
  /\ Len(Log) <= started

\* Two firings have started and each has added its entry to the log.
C29_Witness ==
  /\ started = 2
  /\ Len(Log) = 2
  /\ \E r \in Firings : r.outcome = "Delivered" /\ Count(r, "notify") = 1

\* The outcomes of a firing that had nothing to deliver.
QuietOutcomes == {"Skipped", "Suppressed", "Declined"}

\* Firing r returns in this step with nothing to deliver, as r2.
QuietEnd(r, r2) ==
  /\ r.pc # "done"
  /\ r2.outcome \in QuietOutcomes
  /\ firings' = Replace(r, r2)

\* C30: a firing that ends Skipped, Suppressed or on a negative judgment
\* has written nothing to the store: it never reached the Notifier, the
\* step that ends it leaves every key as it was, and the only steps that
\* change the store are log writes of firings that end Delivered.
C30_QuietFiringsWriteNothing ==
  /\ [](\A r \in Firings :
          /\ Has(r, "judge") /\ ~Truthy(r.flag) =>
               r.pc = "done" /\ r.outcome = "Declined"
          /\ r.outcome \in QuietOutcomes =>
               /\ ~Has(r, "notify") /\ ~Has(r, "send") /\ ~Has(r, "write")
               /\ \A k \in 1..Len(r.trace) :
                    r.trace[k] \in {"read", "gate", "ask", "oracleOk", "parse", "judge"})
  /\ [][\A r \in Firings : \A r2 \in BagToSet(firings') :
          QuietEnd(r, r2) => store' = store]_vars
  /\ [][store' # store =>
          \E r \in Firings : r.pc = "emailSetLog" /\ r.outcome = "none" /\ WriteStep(r)]_vars

\* A due check ended on a negative judgment after another firing's
\* delivery: the log holds that delivery's entry and nothing of the check.
C30_Witness ==
  \E r \in Firings :
    /\ r.kind = "due"
    /\ r.outcome = "Declined"
    /\ Len(Log) = 1

\* The entries of the log are in the order of their sentAt, oldest first.
OldestFirst(log) ==
  \A k, l \in 1..Len(log) : k < l => log[k].sentAt <= log[l].sentAt

\* C31: in every reachable state the stored notification log, and every
\* log a delivery is about to write, is ordered by non-decreasing sentAt,
\* however deliveries interleave; and the entries a write trims away to
\* keep the last 50 are none of them newer than an entry it keeps.
C31_LogOldestFirst ==
  /\ [](/\ OldestFirst(Log)
        /\ \A r \in Firings : r.pc = "emailSetLog" => OldestFirst(r.pending))
  /\ [][\A r \in Firings :
          WriteStep(r) =>
            \A k \in 1..(Len(r.pending) - LogCap) :
              /\ ~Among(r.pending[k], store'.notification_log)
                   \/ \E l \in (Len(r.pending) - LogCap + 1)..Len(r.pending) :
                        r.pending[l] = r.pending[k]
              /\ \A l \in 1..Len(store'.notification_log) :
                   r.pending[k].sentAt <= store'.notification_log[l].sentAt]_vars

\* A full log was trimmed twice, by deliveries made at different ticks: its
\* newest entry is newer than the one before it, and both are of this
\* behaviour.
C31_Witness ==
  /\ Len(Log) = LogCap
  /\ Log[LogCap - 1].sentAt >= StartTime
  /\ Log[LogCap].sentAt > Log[LogCap - 1].sentAt
  /\ Log[1].sentAt > StartTime - LogCap

\* C32: a trigger request whose :job the handler does not recognise (any
\* name but 'morning') is answered ok: false with the message 'Unknown
\* job: ' and the name; the handler has returned with that answer as its
\* only step: no store read, no oracle call, no Notifier call, nothing
\* sent and nothing written.
C32_UnknownJobRejected ==
  \A r \in Firings :
    r.kind = "trigger" /\ r.job # "morning" =>
      /\ r.response = "rejected"
      /\ r.message = <<"Unknown job: ", r.job>>
      /\ r.pc = "done"
      /\ r.outcome = "Rejected"
      /\ r.trace = <<"respond">>
      /\ r.seenTasks = <<>> /\ r.seenGoals = <<>>

\* A request naming no job of the program was answered as rejected after an
\* accepted one had delivered.
C32_Witness ==
  \E r \in Firings :
    /\ r.kind = "trigger"
    /\ r.job = "bogus"
    /\ r.response = "rejected"
    /\ Len(Log) = 1

\* A post's write of the completion log takes effect in this step.
CompletionWriteStep(r) ==
  /\ r.pc = "setCompletion"
  /\ \E r2 \in BagToSet(firings') :
       r2.outcome = "Stored" /\ firings' = Replace(r, r2)

\* C33: the stored completion_log never has more than 500 entries, however
\* the posts interleave; a post of a list of at most 500 entries stores the
\* list, and a post of a longer list stores exactly its last 500 entries in
\* their order.
C33_CompletionLogCapped ==
  /\ [](Len(store.completion_log) <= 500)
  /\ [][\A r \in Firings :
          CompletionWriteStep(r) =>
            LET new == store'.completion_log
                n == Len(r.body) IN
            IF n <= 500
              THEN new = r.body
              ELSE /\ Len(new) = 500
                   /\ \A k \in 1..500 : new[k] = r.body[n - 500 + k]]_vars

\* A list of 502 entries was posted and the store holds its entries 3 to
\* 502.
C33_Witness ==
  /\ Len(store.completion_log) = CompletionCap
  /\ store.completion_log[1] = 3
  /\ store.completion_log[CompletionCap] = CompletionCap + 2

\* The handler has built its message and waits for the oracle.
AtOracle(r) == r.pc \in {"getMemory", "fetch"}

\* C34: for every job kind the digest handed to the oracle has at most 8
\* item lines, whatever the store holds.
C34_DigestBounded ==
  \A r \in Firings : AtOracle(r) => DigestLines(r, now) <= 8

\* What the code bounds: the focus reminder's digest has at most 5 lines.
C34_FocusDigestBounded ==
  \A r \in Firings : AtOracle(r) /\ r.kind = "focus" => DigestLines(r, now) <= 5

\* The focus reminder asks the oracle over nine open tasks.
C34_Witness ==
  \E r \in Firings :
    AtOracle(r) /\ r.kind = "focus" /\ Len(FocusTasks(r.seenTasks)) = 9

\* The caller of dbGet holds null: there was no row, or the row's text
\* parsed to null.
ReturnsNull(result) ==
  \/ result.status = "null"
  \/ result.status = "value" /\ result.val = JNull

\* The last dbSet completed on key k stored null.
NullSet(k) == k \in SetKeys /\ db.last[k] = <<JNull>>

\* C35 as stated: dbGet(k) returns null if and only if the table has no row
\* for k.
C35_NullIffAbsent ==
  db.table =>
    \A k \in KnownKeys \cup {OtherKey} :
      ReturnsNull(DbGetResult(db.table, db.rows, k)) <=> k \notin DOMAIN db.rows

\* C35: dbGet(k) returns null if and only if the table has no row for k or
\* the last dbSet completed on k stored null; after a dbSet(k, v) of any
\* other value, dbGet(k) returns a value that is not null.
C35_NullIffAbsentOrNullSet ==
  db.table =>
    /\ \A k \in KnownKeys \cup {OtherKey} :
         ReturnsNull(DbGetResult(db.table, db.rows, k))
           <=> (k \notin DOMAIN db.rows \/ NullSet(k))
    /\ \A k \in SetKeys :
         db.last[k] # <<>> /\ db.last[k] # <<JNull>> =>
           /\ k \in DOMAIN db.rows
           /\ ~ReturnsNull(DbGetResult(db.table, db.rows, k))

\* dbSet('tasks', null) has completed, the row is there, and dbGet('tasks')
\* has returned null.
C35_Witness ==
  /\ db.last["tasks"] = <<JNull>>
  /\ "tasks" \in DOMAIN db.rows
  /\ db.got # <<>>
  /\ db.got[1].key = "tasks"
  /\ db.got[1].result = DbGetResult(db.table, db.rows, "tasks")
  /\ ReturnsNull(db.got[1].result)

\* The write of the 'add' command r takes effect in this step.
VoiceWriteStep(r) ==
  /\ r.kind = "voice"
  /\ r.pc = "setTasks"
  /\ \E r2 \in BagToSet(firings') :
       r2.outcome = "Added" /\ firings' = Replace(r, r2)

\* C36: the write of an 'add' command leaves in the store the task list as
\* it stood just before the write, with the new task appended, whatever
\* was written to the list while the command waited for the oracle.
C36_AddKeepsStoredTasks ==
  [][\A r \in Firings :
       VoiceWriteStep(r) =>
         /\ Len(store'.tasks) = Len(store.tasks) + 1
         /\ SubSeq(store'.tasks, 1, Len(store.tasks)) = store.tasks
         /\ store'.tasks[Len(store'.tasks)] = r.pending[Len(r.pending)]]_vars

\* What the code does: the write leaves the list the command read when it
\* began, with the new task appended.
C36_AddWritesFromItsRead ==
  [][\A r \in Firings :
       VoiceWriteStep(r) =>
         /\ Len(store'.tasks) = Len(r.seenTasks) + 1
         /\ SubSeq(store'.tasks, 1, Len(r.seenTasks)) = r.seenTasks]_vars

\* An 'add' command is about to write a list without the tasks a POST
\* stored after the command had read.
C36_StaleWrite ==
  \E r \in Firings :
    /\ r.kind = "voice" /\ r.pc = "setTasks"
    /\ r.seenTasks = <<>>
    /\ store.tasks = <<TaskDone, TaskLow>>

====
